---- MODULE Spec2Model ----
(***************************************************************************)
(* Model of the DCP RPC engine of drivers/gpu/drm/apple: the 64-bit        *)
(* envelope codec (dcpep.h), the call and callback channels with their     *)
(* depth-indexed frame arrays, dcp_push / dcp_ack, the callback dispatcher *)
(* dcpep_handle_cb, the ack path dcpep_handle_ack and dcp_swap (dcp.c),    *)
(* the memory handlers of the dispatcher, the vblank side of the display   *)
(* driver (apple_drv.c) and the reader of serialized dictionaries          *)
(* (parser.c).                                                             *)
(*                                                                         *)
(* Numbers wider than 31 bits do not fit TLC's integers: a 64-bit word is  *)
(* kept as four 16-bit limbs <<w0, w1, w2, w3>> (w0 = bits 15:0) and a u32 *)
(* as two 16-bit halves <<lo, hi>>.  Addresses are byte offsets into the   *)
(* shared buffer dcp->shmem.                                               *)
(***************************************************************************)
EXTENDS Integers, Sequences, FiniteSets, TLC

(***************************************************************************)
(* Program constants                                                       *)
(***************************************************************************)
DCP_CONTEXT_CB == 0
DCP_CONTEXT_CMD == 2
DCP_CONTEXT_ASYNC == 3
DCP_CONTEXT_OOBCB == 4
DCP_CONTEXT_OOBCMD == 5

DCPEP_TYPE_SET_SHMEM == 0
DCPEP_TYPE_INITIALIZED == 1
DCPEP_TYPE_MESSAGE == 2
DCPEP_DVA_SHIFT == 16
DCPEP_FLAG_SHIFT == 4
DCPEP_FLAG_VALUE == 4

DCPEP_ACK_SHIFT == 6
DCPEP_CONTEXT_SHIFT == 8

DCP_PACKET_ALIGNMENT == 64
DCP_MAX_CALL_DEPTH == 8
DCPEP_MAX_CB == 1000
DCP_MAX_MAPPINGS == 128
EINVAL == 22
PAGE_SIZE == 4096
\* sizeof(struct dcp_packet_header): char tag[4]; u32 in_len; u32 out_len
HEADER_SIZE == 12
\* -EINVAL as returned by dcp_tx_offset and dcp_parse_tag
EINVAL_NEG == -22

\* u8 and u16 arithmetic wraps
U8 == 256
U16 == 65536

NULL == "NULL"
\* a null data pointer (addresses are offsets into shmem, so 0 is taken)
NULL_PTR == -1

(***************************************************************************)
(* Bit operations on naturals below 2^16                                   *)
(***************************************************************************)
RECURSIVE BitOr(_, _)
BitOr(a, b) ==
    IF a = 0 THEN b
    ELSE IF b = 0 THEN a
    ELSE (IF (a % 2 = 1) \/ (b % 2 = 1) THEN 1 ELSE 0) + 2 * BitOr(a \div 2, b \div 2)

\* bits hi..lo of a limb, shifted down to bit 0
Bits(w, hi, lo) == (w \div (2 ^ lo)) % (2 ^ (hi - lo + 1))

ToU32(n) == <<n % U16, n \div U16>>

\* ++ on a u32 held as <<low half, high half>>
Inc32(n) == <<(n[1] + 1) % U16, (n[2] + (n[1] + 1) \div U16) % U16>>

\* a u64 is held as four 16-bit limbs, low limb first
U64(n) == <<n % U16, n \div U16, 0, 0>>

Add64(a, b) ==
    LET s1 == a[1] + b[1]
        s2 == a[2] + b[2] + s1 \div U16
        s3 == a[3] + b[3] + s2 \div U16
        s4 == a[4] + b[4] + s3 \div U16
    IN <<s1 % U16, s2 % U16, s3 % U16, s4 % U16>>

Lt64(a, b) == \E i \in 1 .. 4 : a[i] < b[i] /\ \A j \in (i + 1) .. 4 : a[j] = b[j]

Le64(a, b) == a = b \/ Lt64(a, b)

\* ALIGN(v, 4096) on a u64: (v + 4095) & ~4095, modulo 2^64
ALIGN_PAGE(v) ==
    LET r == Add64(v, U64(PAGE_SIZE - 1)) IN <<r[1] - (r[1] % PAGE_SIZE), r[2], r[3], r[4]>>

(***************************************************************************)
(* Envelope codec                                                          *)
(***************************************************************************)
\* mutant: the ack flag put in bit 7
dcpep_msg_ackbit7(id, length, offset, ack) ==
    << BitOr(BitOr(DCPEP_TYPE_MESSAGE, IF ack THEN 2 ^ 7 ELSE 0),
             ((id % 256) * (2 ^ DCPEP_CONTEXT_SHIFT))),
       BitOr(offset, id \div 256),
       length[1],
       length[2] >>

\* dcpep_msg: type | ack << 6 | (u64) id << 8 | (u64) offset << 16 | (u64) length << 32
\* dart_va << 16 on a u64: the top 16 bits leave the word
dcpep_set_shmem(dart_va) ==
    << BitOr(DCPEP_TYPE_SET_SHMEM, DCPEP_FLAG_VALUE * (2 ^ DCPEP_FLAG_SHIFT)),
       dart_va[1], dart_va[2], dart_va[3] >>

dcpep_msg(id, length, offset, ack) ==
    << BitOr(BitOr(DCPEP_TYPE_MESSAGE, IF ack THEN 2 ^ DCPEP_ACK_SHIFT ELSE 0),
             ((id % 256) * (2 ^ DCPEP_CONTEXT_SHIFT))),
       BitOr(offset, id \div 256),
       length[1],
       length[2] >>

\* dcp_got_msg: type = (message >> DCPEP_TYPE_SHIFT) & DCPEP_TYPE_MASK
msg_type(message) == Bits(message[1], 1, 0)

\* dcpep_got_msg: the four field extractions
msg_ack(message) == Bits(message[1], DCPEP_ACK_SHIFT, DCPEP_ACK_SHIFT) # 0
msg_ctx(message) == Bits(message[1], 11, DCPEP_CONTEXT_SHIFT)
msg_offset(message) == message[2]
msg_length(message) == <<message[3], message[4]>>

(***************************************************************************)
(* Window table                                                            *)
(***************************************************************************)
dcp_tx_offset(id) ==
    CASE id \in {DCP_CONTEXT_CB, DCP_CONTEXT_CMD} -> 0
      [] id \in {DCP_CONTEXT_OOBCB, DCP_CONTEXT_OOBCMD} -> 32768
      [] OTHER -> EINVAL_NEG

dcp_channel_offset(id) ==
    CASE id = DCP_CONTEXT_ASYNC -> 262144
      [] id = DCP_CONTEXT_CB -> 393216
      [] id = DCP_CONTEXT_OOBCB -> 425984
      [] OTHER -> dcp_tx_offset(id)

(***************************************************************************)
(* Method table and tags.  A tag is the four characters of the code in     *)
(* reading order; Reverse4 gives the order of the bytes in the packet.     *)
(***************************************************************************)
dcp_methods ==
    [ late_init_signal |-> <<"A", "0", "0", "0">>,
      setup_video_limits |-> <<"A", "0", "2", "9">>,
      set_create_dfb |-> <<"A", "3", "5", "7">>,
      start_signal |-> <<"A", "4", "0", "1">>,
      swap_start |-> <<"A", "4", "0", "7">>,
      swap_submit |-> <<"A", "4", "0", "8">>,
      set_display_device |-> <<"A", "4", "1", "0">>,
      set_digital_out_mode |-> <<"A", "4", "1", "2">>,
      create_default_fb |-> <<"A", "4", "4", "2">>,
      set_display_refresh_properties |-> <<"A", "4", "5", "9">>,
      flush_supports_power |-> <<"A", "4", "6", "2">> ]

Reverse4(t) == <<t[4], t[3], t[2], t[1]>>

(***************************************************************************)
(* Engine state.  A call channel holds callbacks, cookies, output, end     *)
(* (slots 0..7) and a u8 depth; a callback channel holds output and depth. *)
(* The step fields sent, wrote, ran, vblank, warn, oob hold what the       *)
(* current entry point has done so far.                                    *)
(***************************************************************************)
Slots == 0 .. (DCP_MAX_CALL_DEPTH - 1)

EmptyCallChannel ==
    [ depth |-> 0,
      callbacks |-> [i \in Slots |-> NULL],
      cookies |-> [i \in Slots |-> NULL],
      output |-> [i \in Slots |-> NULL_PTR],
      end |-> [i \in Slots |-> 0] ]

EmptyCbChannel == [ depth |-> 0, output |-> [i \in Slots |-> NULL_PTR] ]

dcp_get_call_channel(context) ==
    CASE context \in {DCP_CONTEXT_CMD, DCP_CONTEXT_CB} -> "ch_cmd"
      [] context \in {DCP_CONTEXT_OOBCMD, DCP_CONTEXT_OOBCB} -> "ch_oobcmd"
      [] OTHER -> NULL

dcp_get_cb_channel(context) ==
    CASE context = DCP_CONTEXT_CB -> "ch_cb"
      [] context = DCP_CONTEXT_OOBCB -> "ch_oobcb"
      [] context = DCP_CONTEXT_ASYNC -> "ch_async"
      [] OTHER -> NULL

\* A kernel oops (NULL dereference, jump through a wild pointer): the entry
\* point stops where it is.
Oops(s, why) == [s EXCEPT !.oops = TRUE, !.oob = @ \cup {why}]

dcpep_send(s, msg) == [s EXCEPT !.sent = Append(@, msg)]

\* dcp_packet_start; end[depth - 1] outside the array reads whatever lies
\* there (s.ub.u16)
dcp_packet_start(s, ch, depth) ==
    IF depth > 0
    THEN IF (depth - 1) \in Slots THEN s[ch].end[depth - 1] ELSE s.ub.u16
    ELSE 0

\* dcp_push_depth: ret = (*depth)++; WARN_ON(ret >= DCP_MAX_CALL_DEPTH)
dcp_push_depth(s, ch) ==
    [s EXCEPT ![ch].depth = (@ + 1) % U8,
              !.warn = @ + (IF s[ch].depth >= DCP_MAX_CALL_DEPTH THEN 1 ELSE 0)]

\* dcp_pop_depth: WARN_ON(*depth == 0); return --(*depth)
dcp_pop_depth(s, ch) ==
    [s EXCEPT ![ch].depth = (@ + U8 - 1) % U8,
              !.warn = @ + (IF s[ch].depth = 0 THEN 1 ELSE 0)]

\* a store into the shared buffer: len bytes at addr; a packet header carries
\* tag, in_len, out_len, and data is the value stored after it (or the value
\* of a plain store)
Write(s, addr, len, by, tag, in_len, out_len, data) ==
    [s EXCEPT !.wrote = @ \cup
        {[ addr |-> addr, len |-> len, by |-> by, tag |-> tag,
           in_len |-> in_len, out_len |-> out_len, data |-> data ]}]

ALIGN(n, a) == ((n + a - 1) \div a) * a

\* the four frame stores of dcp_push, lines 192-195
StoreFrame(s, ch, depth, cb, cookie, out, endoff) ==
    [s EXCEPT ![ch].callbacks[depth] = cb,
              ![ch].cookies[depth] = cookie,
              ![ch].output[depth] = out,
              ![ch].end[depth] = endoff % U16]

\* mutant: the output region left out of the length
PacketLen_no_out(in_len, out_len) == HEADER_SIZE + in_len

\* data_len = sizeof(header) + in_len + out_len
PacketLen(in_len, out_len) == HEADER_SIZE + in_len + out_len

dcp_push(s, context, method, in_len, out_len, data, cb, cookie) ==
    LET ch == dcp_get_call_channel(context) IN
    IF s.oops THEN s
    ELSE IF ch = NULL THEN Oops(s, "null_channel")
    ELSE
    LET depth == s[ch].depth
        s1 == dcp_push_depth(s, ch)
        offset == dcp_packet_start(s1, ch, depth)
        s2 == IF depth > 0 /\ (depth - 1) \notin Slots
              THEN [s1 EXCEPT !.oob = @ \cup {"read_end"}] ELSE s1
        out == dcp_tx_offset(context) + offset
        data_len == PacketLen(in_len, out_len)
        s3 == Write(s2, out, HEADER_SIZE + in_len, "dcp_push",
                    Reverse4(dcp_methods[method]), in_len, out_len, data)
        s4 == IF depth \in Slots
              THEN StoreFrame(s3, ch, depth, cb, cookie,
                              out + HEADER_SIZE + in_len,
                              offset + ALIGN(data_len, DCP_PACKET_ALIGNMENT))
              ELSE IF s.ub.write = "oops" THEN Oops(s3, "write_frame")
              ELSE [s3 EXCEPT !.oob = @ \cup {"write_frame"}]
    IN IF s4.oops THEN s4
       ELSE dcpep_send(s4, dcpep_msg(context, ToU32(data_len), offset, FALSE))

\* dcp_ack
dcp_ack(s, context) ==
    LET ch == dcp_get_cb_channel(context) IN
    IF s.oops THEN s
    ELSE IF ch = NULL THEN Oops(s, "null_channel")
    ELSE dcpep_send(dcp_pop_depth(s, ch), dcpep_msg(context, ToU32(0), 0, TRUE))

(***************************************************************************)
(* Continuations of outbound calls.  data is the pointer handed over by    *)
(* dcpep_handle_ack and p what the shared buffer holds there.              *)
(***************************************************************************)
Ran(s, name, arg, cookie) ==
    [s EXCEPT !.ran = Append(@, [name |-> name, arg |-> arg, cookie |-> cookie])]

\* apple_crtc_vblank(dcp->apple).  s.apple.link is "NULL" until dcp_link,
\* "linked" until apple->crtc is set, then "ready"; vblank counts the calls,
\* drm holds what reaches the DRM core
apple_crtc_vblank(s) ==
    IF s.apple.link # "ready" THEN Oops(s, "null_apple")
    ELSE IF s.apple.vsync_disabled THEN [s EXCEPT !.vblank = @ + 1]
    ELSE [s EXCEPT !.vblank = @ + 1,
                   !.drm = @ \o <<"drm_crtc_handle_vblank">>
                             \o (IF s.apple.event THEN <<"drm_crtc_send_vblank_event">>
                                 ELSE <<>>),
                   !.apple.event = FALSE]

boot_done(s) ==
    LET idx == s.ch_cb.depth - 1 IN
    IF idx \in Slots
    THEN dcp_ack(Write(s, s.ch_cb.output[idx], 1, "boot_done", <<>>, 0, 0, 1),
                 DCP_CONTEXT_CB)
    ELSE IF s.ub.write = "oops" THEN Oops(s, "read_output")
    ELSE dcp_ack([s EXCEPT !.oob = @ \cup {"read_output"}], DCP_CONTEXT_CB)

boot_5(s) ==
    dcp_push(s, DCP_CONTEXT_CB, "set_display_refresh_properties", 0, 4, 0,
             "boot_done", NULL)

boot_4(s) ==
    dcp_push(s, DCP_CONTEXT_CB, "late_init_signal", 0, 4, 0, "boot_5", NULL)

boot_3(s) ==
    dcp_push(s, DCP_CONTEXT_CB, "flush_supports_power", 1, 0, 1, "boot_4", NULL)

boot_2(s) ==
    dcp_push(s, DCP_CONTEXT_CB, "setup_video_limits", 0, 0, 0, "boot_3", NULL)

\* mutant: create_default_fb left out of the chain
boot_1_5_no_fb(s) ==
    dcp_push(s, DCP_CONTEXT_CB, "setup_video_limits", 0, 0, 0, "boot_3", NULL)

boot_1_5(s) ==
    dcp_push(s, DCP_CONTEXT_CB, "create_default_fb", 0, 4, 0, "boot_2", NULL)

\* dcp_swapped calling apple_crtc_vblank whatever the status
dcp_swapped_always(s, p) == apple_crtc_vblank(s)

\* resp->ret of swap_submit is p.val
dcp_swapped(s, p) == IF p.val # 0 THEN apple_crtc_vblank(s) ELSE s

\* req->swap_rec.swap_id = resp->swap_id (p.val); sizeof req 0x8a0, resp 0x8
dcp_swap_started(s, p) ==
    dcp_push(s, DCP_CONTEXT_CMD, "swap_submit", 2208, 8, p.val, "dcp_swapped", NULL)

modeset_done(s) == [s EXCEPT !.active = TRUE]

dcp_set_4k(s) ==
    dcp_push(s, DCP_CONTEXT_CMD, "set_digital_out_mode", 8, 4, 0, "modeset_done", NULL)

\* mutant: the branch compiled out by #if 0, active set by the first ack
dcp_started_active(s) == [s EXCEPT !.active = TRUE]

dcp_started(s) ==
    dcp_push(s, DCP_CONTEXT_CMD, "set_display_device", 4, 4, 2, "dcp_set_4k", NULL)

\* the indirect call cb(dcp, data, cookie)
RunCb(s, cb, data, cookie, p) ==
    LET r == Ran(s, cb, data, cookie) IN
    CASE cb = "boot_done" -> boot_done(r)
      [] cb = "boot_5" -> boot_5(r)
      [] cb = "boot_4" -> boot_4(r)
      [] cb = "boot_3" -> boot_3(r)
      [] cb = "boot_2" -> boot_2(r)
      [] cb = "boot_1_5" -> boot_1_5(r)
      [] cb = "dcp_swapped" -> dcp_swapped(r, p)
      [] cb = "dcp_swap_started" -> dcp_swap_started(r, p)
      [] cb = "modeset_done" -> modeset_done(r)
      [] cb = "dcp_set_4k" -> dcp_set_4k(r)
      [] cb = "dcp_started" -> dcp_started(r)

(***************************************************************************)
(* Callback handlers.  Each returns the state with hret = its return value *)
(* ("should the dispatcher ack").                                          *)
(***************************************************************************)
Ret(s, b) == [s EXCEPT !.hret = b]

dcpep_cb_nop(s, out, in) == Ret(s, TRUE)

dcpep_cb_swap_complete(s, out, in) == Ret(apple_crtc_vblank(s), TRUE)

dcpep_cb_zero(s, out, in) ==
    Ret(Write(s, out, 4, "dcpep_cb_zero", <<>>, 0, 0, 0), TRUE)

dcpep_cb_get_uint_prop(s, out, in) ==
    Ret(Write(s, out, 8, "dcpep_cb_get_uint_prop", <<>>, 0, 0, 0), TRUE)

dcpep_cb_get_frequency(s, out, in) ==
    Ret(Write(s, out, 8, "dcpep_cb_get_frequency", <<>>, 0, 0, 533333328), TRUE)

dcpep_cb_true(s, out, in) ==
    Ret(Write(s, out, 1, "dcpep_cb_true", <<>>, 0, 0, 1), TRUE)

dcpep_cb_false(s, out, in) ==
    Ret(Write(s, out, 1, "dcpep_cb_false", <<>>, 0, 0, 0), TRUE)

dcpep_cb_boot_1(s, out, in) ==
    Ret(dcp_push(s, DCP_CONTEXT_CB, "set_create_dfb", 0, 0, 0, "boot_1_5", NULL),
        FALSE)

\* memcpy(out, data, sizeof(data)) of the fixed 0x3C bytes
dcpep_cb_rt_bandwidth_setup(s, out, in) ==
    Ret(Write(s, out, 60, "dcpep_cb_rt_bandwidth_setup", <<>>, 0, 0, 0), TRUE)

(***************************************************************************)
(* Memory handlers.  req holds the request as the packet carries it: x and *)
(* y are its first and second 64-bit (or 32-bit) fields; dma_ok tells if   *)
(* the DMA call of the handler succeeds and sgt_ok if dma_get_sgtable      *)
(* leaves a table in the entry.  mappings is the set of indices whose      *)
(* sg.sgl is not NULL.                                                     *)
(***************************************************************************)
MemOp(s, api, idx, addr, size, ok) ==
    [s EXCEPT !.memops = Append(@,
        [api |-> api, idx |-> idx, addr |-> addr, size |-> size, ok |-> ok])]

\* the reply structure stored at out: ret is -1 when the handler stores no
\* status, id is <<>> when the structure has no mem_desc_id
Reply(s, by, ret, id, addr, size, dva) ==
    [s EXCEPT !.reply = Append(@,
        [by |-> by, ret |-> ret, id |-> id, addr |-> addr, size |-> size,
         dva |-> dva])]

dcpep_cb_map_piodma(s, out, in, req) ==
    LET buffer == req.x
        reject == Ret(Reply(Write(s, out, 20, "dcpep_cb_map_piodma", <<>>, 0, 0, 0),
                            "dcpep_cb_map_piodma", EINVAL, <<>>, U64(0), U64(0), FALSE),
                      TRUE)
    IN
    IF Le64(U64(DCP_MAX_MAPPINGS), buffer) THEN reject
    ELSE IF buffer[1] \notin s.mappings THEN reject
    ELSE
    LET s1 == MemOp(s, "dma_map_sgtable", buffer[1], U64(0), U64(0), req.dma_ok)
        s2 == Write(s1, out, 20, "dcpep_cb_map_piodma", <<>>, 0, 0, 0)
    IN Ret(Reply(s2, "dcpep_cb_map_piodma", 0, <<>>, U64(0), U64(0), req.dma_ok), TRUE)

dcpep_cb_allocate_buffer(s, out, in, req) ==
    LET dva_size == ALIGN_PAGE(req.y)
        id == Inc32(s.nr_mappings)
        s1 == Write([s EXCEPT !.nr_mappings = id], out, 28,
                    "dcpep_cb_allocate_buffer", <<>>, 0, 0, 0)
        s2 == Reply(s1, "dcpep_cb_allocate_buffer", -1, id, U64(0), dva_size, req.dma_ok)
    IN
    IF id[2] > 0 \/ id[1] >= DCP_MAX_MAPPINGS
    THEN Ret(Reply(s1, "dcpep_cb_allocate_buffer", -1, id, U64(0), dva_size, FALSE), TRUE)
    ELSE
    LET s3 == MemOp(s2, "dma_alloc_coherent", -1, U64(0), dva_size, req.dma_ok)
        s4 == MemOp(s3, "mappings_store", id[1], U64(0), dva_size, TRUE)
        s5 == MemOp(s4, "dma_get_sgtable", id[1], U64(0), dva_size, req.sgt_ok)
        s6 == [s5 EXCEPT !.mappings = IF req.sgt_ok THEN @ \cup {id[1]} ELSE @ \ {id[1]}]
    IN Ret([s6 EXCEPT !.warn = @ + (IF id = <<0, 0>> THEN 1 ELSE 0)], TRUE)

dcpep_cb_map_physical(s, out, in, req) ==
    LET dva_size == ALIGN_PAGE(req.y)
        s1 == MemOp(s, "dma_map_resource", -1, req.x, dva_size, req.dma_ok)
        id == Inc32(s.nr_mappings)
        s2 == Write([s1 EXCEPT !.nr_mappings = id], out, 20,
                    "dcpep_cb_map_physical", <<>>, 0, 0, 0)
        s3 == Reply(s2, "dcpep_cb_map_physical", -1, id, U64(0), dva_size, TRUE)
    IN Ret([s3 EXCEPT !.warn = @ + (IF id = <<0, 0>> THEN 1 ELSE 0)], TRUE)

\* the register windows advertised to the coprocessor: <<addr, length>>
registers ==
    << << <<0, 12288, 2, 0>>, <<32768, 62, 0, 0>> >>,      \* 0x230000000, 0x3e8000
       << <<0, 12594, 2, 0>>, <<16384, 0, 0, 0>> >>,       \* 0x231320000, 0x4000
       << <<16384, 12596, 2, 0>>, <<16384, 0, 0, 0>> >>,   \* 0x231344000, 0x4000
       << <<0, 12672, 2, 0>>, <<0, 128, 0, 0>> >>,         \* 0x231800000, 0x800000
       << <<0, 15165, 2, 0>>, <<16384, 0, 0, 0>> >>,       \* 0x23b3d0000, 0x4000
       << <<32768, 15219, 2, 0>>, <<4096, 0, 0, 0>> >>,    \* 0x23b738000, 0x1000
       << <<49152, 15299, 2, 0>>, <<4096, 0, 0, 0>> >> >>  \* 0x23bc3c000, 0x1000

\* req.x holds the u32 index in its two low limbs
dcpep_cb_map_reg(s, out, in, req) ==
    LET index == req.x
        s1 == Write(s, out, 20, "dcpep_cb_map_reg", <<>>, 0, 0, 0)
    IN
    IF index[2] > 0 \/ index[1] >= Len(registers)
    THEN Ret(Reply(s1, "dcpep_cb_map_reg", 1, <<>>, U64(0), U64(0), FALSE), TRUE)
    ELSE Ret(Reply(s1, "dcpep_cb_map_reg", 0, <<>>, registers[index[1] + 1][1],
                   registers[index[1] + 1][2], FALSE), TRUE)

\* the table dcpep_cb_handlers: id -> .cb; every other id has .cb = NULL
dcpep_cb_handlers ==
    [ id \in {0, 1, 107, 108, 109, 110, 121, 122, 123, 206, 207, 413, 414, 415,
              552, 561, 563, 565, 567} |-> "dcpep_cb_true" ]
    @@ [ id \in {2, 100, 103, 106, 300, 576, 577, 591, 598} |-> "dcpep_cb_nop" ]
    @@ [ id \in {101, 574} |-> "dcpep_cb_zero" ]
    @@ [ id \in {111, 119} |-> "dcpep_cb_false" ]
    @@ (3 :> "dcpep_cb_rt_bandwidth_setup")
    @@ (116 :> "dcpep_cb_boot_1")
    @@ (201 :> "dcpep_cb_map_piodma")
    @@ (401 :> "dcpep_cb_get_uint_prop")
    @@ (408 :> "dcpep_cb_get_frequency")
    @@ (411 :> "dcpep_cb_map_reg")
    @@ (451 :> "dcpep_cb_allocate_buffer")
    @@ (452 :> "dcpep_cb_map_physical")
    @@ (589 :> "dcpep_cb_swap_complete")

HandlerOf(tag) ==
    IF tag \in DOMAIN dcpep_cb_handlers THEN dcpep_cb_handlers[tag] ELSE NULL

\* the indirect call cb->cb(dcp, out, in)
CallHandler(s, cb, out, in, req) ==
    LET r == Ran(s, cb, out, in) IN
    CASE cb = "dcpep_cb_true" -> dcpep_cb_true(r, out, in)
      [] cb = "dcpep_cb_false" -> dcpep_cb_false(r, out, in)
      [] cb = "dcpep_cb_nop" -> dcpep_cb_nop(r, out, in)
      [] cb = "dcpep_cb_zero" -> dcpep_cb_zero(r, out, in)
      [] cb = "dcpep_cb_swap_complete" -> dcpep_cb_swap_complete(r, out, in)
      [] cb = "dcpep_cb_get_uint_prop" -> dcpep_cb_get_uint_prop(r, out, in)
      [] cb = "dcpep_cb_get_frequency" -> dcpep_cb_get_frequency(r, out, in)
      [] cb = "dcpep_cb_rt_bandwidth_setup" -> dcpep_cb_rt_bandwidth_setup(r, out, in)
      [] cb = "dcpep_cb_boot_1" -> dcpep_cb_boot_1(r, out, in)
      [] cb = "dcpep_cb_map_piodma" -> dcpep_cb_map_piodma(r, out, in, req)
      [] cb = "dcpep_cb_allocate_buffer" -> dcpep_cb_allocate_buffer(r, out, in, req)
      [] cb = "dcpep_cb_map_physical" -> dcpep_cb_map_physical(r, out, in, req)
      [] cb = "dcpep_cb_map_reg" -> dcpep_cb_map_reg(r, out, in, req)

(***************************************************************************)
(* Tag parsing                                                             *)
(***************************************************************************)
\* (u32) (c - '0'): 0..9 for a decimal digit, more than 9 for any other byte
DigitOf(c) ==
    CASE c = "0" -> 0 [] c = "1" -> 1 [] c = "2" -> 2 [] c = "3" -> 3
      [] c = "4" -> 4 [] c = "5" -> 5 [] c = "6" -> 6 [] c = "7" -> 7
      [] c = "8" -> 8 [] c = "9" -> 9 [] OTHER -> 10

\* mutant: the 'D' test dropped
dcp_parse_tag_anyletter(tag) ==
    IF \E i \in 1 .. 3 : DigitOf(tag[i]) > 9 THEN EINVAL_NEG
    ELSE DigitOf(tag[1]) + DigitOf(tag[2]) * 10 + DigitOf(tag[3]) * 100

\* mutant: the digits weighted in packet order
dcp_parse_tag_unreversed(tag) ==
    IF tag[4] # "D" THEN EINVAL_NEG
    ELSE IF \E i \in 1 .. 3 : DigitOf(tag[i]) > 9 THEN EINVAL_NEG
    ELSE DigitOf(tag[1]) * 100 + DigitOf(tag[2]) * 10 + DigitOf(tag[3])

\* tag holds the four bytes in packet order
dcp_parse_tag(tag) ==
    IF tag[4] # "D" THEN EINVAL_NEG
    ELSE IF \E i \in 1 .. 3 : DigitOf(tag[i]) > 9 THEN EINVAL_NEG
    ELSE DigitOf(tag[1]) + DigitOf(tag[2]) * 10 + DigitOf(tag[3]) * 100

(***************************************************************************)
(* Receive path                                                            *)
(***************************************************************************)
\* data is the packet's address; p.tag, p.in_len, p.out_len its header
dcpep_handle_cb(s, context, data, p) ==
    LET tag == dcp_parse_tag(p.tag)
        ch == dcp_get_cb_channel(context)
    IN
    IF tag < 0 \/ tag >= DCPEP_MAX_CB THEN dcp_ack(s, context)
    ELSE IF ch = NULL THEN Oops(s, "null_channel")
    ELSE
    LET cb == HandlerOf(tag)
        depth == s[ch].depth
        s1 == dcp_push_depth(s, ch)
        in == data + HEADER_SIZE
        out == in + p.in_len
        s2 == IF depth \in Slots THEN [s1 EXCEPT ![ch].output[depth] = out]
              ELSE IF s.ub.write = "oops" THEN Oops(s1, "write_output")
              ELSE [s1 EXCEPT !.oob = @ \cup {"write_output"}]
        s3 == IF s2.oops THEN s2 ELSE CallHandler(s2, cb, out, in, p.req)
    IN
    IF cb = NULL THEN dcp_ack(s1, context)
    ELSE IF s3.oops THEN s3
    ELSE IF s3.hret THEN dcp_ack(s3, context)
    ELSE s3

dcpep_handle_ack(s, context, data, p) ==
    LET ch == dcp_get_call_channel(context) IN
    IF ch = NULL THEN s
    ELSE
    LET s1 == dcp_pop_depth(s, ch)
        d == s1[ch].depth
        inb == d \in Slots
        cb == IF inb THEN s1[ch].callbacks[d] ELSE s.ub.cbptr
        cookie == IF inb THEN s1[ch].cookies[d] ELSE NULL
        s2 == IF inb THEN s1 ELSE [s1 EXCEPT !.oob = @ \cup {"read_frame"}]
    IN
    IF cb = NULL THEN s2
    ELSE IF cb = "wild" THEN Oops(s2, "wild_call")
    ELSE RunCb(s2, cb, data + HEADER_SIZE + p.in_len, cookie, p)

\* the dispatch without the test of the channel offset
dcpep_got_msg_unchecked(s, message, p) ==
    IF msg_ack(message)
    THEN dcpep_handle_ack(s, msg_ctx(message),
                          dcp_channel_offset(msg_ctx(message)) + msg_offset(message), p)
    ELSE dcpep_handle_cb(s, msg_ctx(message),
                         dcp_channel_offset(msg_ctx(message)) + msg_offset(message), p)

dcpep_got_msg(s, message, p) ==
    LET ack == msg_ack(message)
        ctx_id == msg_ctx(message)
        offset == msg_offset(message)
        channel_offset == dcp_channel_offset(ctx_id)
        data == channel_offset + offset
    IN
    IF channel_offset < 0 THEN s
    ELSE IF ack THEN dcpep_handle_ack(s, ctx_id, data, p)
    ELSE dcpep_handle_cb(s, ctx_id, data, p)

dcp_got_msg(s, message, p) ==
    LET type == msg_type(message) IN
    CASE type = DCPEP_TYPE_INITIALIZED ->
            dcp_push(s, DCP_CONTEXT_CMD, "start_signal", 0, 4, 0, "dcp_started", NULL)
      [] type = DCPEP_TYPE_MESSAGE -> dcpep_got_msg(s, message, p)
      [] OTHER -> s

\* dcp_swap: sizeof(struct dcp_swap_start_req) = sizeof(resp) = 0x18
dcp_swap(s) ==
    dcp_push([s EXCEPT !.warn = @ + (IF s.active THEN 0 ELSE 1)],
             DCP_CONTEXT_CMD, "swap_start", 24, 24, 0, "dcp_swap_started", "req")

(***************************************************************************)
(* State                                                                   *)
(***************************************************************************)
VARIABLES
    ch_cmd, ch_oobcmd,          \* struct dcp_call_channel
    ch_cb, ch_oobcb, ch_async,  \* struct dcp_cb_channel
    active,                     \* dcp->active
    nr_mappings,                \* dcp->nr_mappings, a u32 as <<low, high>>
    mappings,                   \* indices of dcp->mappings whose sg.sgl is set
    apple,                      \* dcp->apple: link, crtc->vsync_disabled, crtc->event
    oops,                       \* the kernel has oopsed inside the engine
    sent,                       \* words handed to dcpep_send by the last step
    wrote,                      \* stores into shmem made by the last step
    ran,                        \* handlers and continuations run by the last step
    vblank,                     \* apple_crtc_vblank calls of the last step
    warn,                       \* WARN_ONs fired by the last step
    oob,                        \* out-of-bounds accesses of the last step
    memops,                     \* DMA calls and table stores of the last step
    reply,                      \* reply structures stored by memory handlers
    drm,                        \* calls into the DRM core made by the last step
    last,                       \* the last step: entry point, input, depths before
    inputs,                     \* inputs taken so far that count for MaxInputs
    owed,                       \* per context: callbacks received minus acks sent
    pending,                    \* per call channel: tags of the calls pushed and not acked yet
    parser,                     \* the handle of parser.c and its last operation
    codec,                      \* the codec under test (SpecCodec)
    cpu                         \* the threads inside the engine (SpecRace)

engine == <<ch_cmd, ch_oobcmd, ch_cb, ch_oobcb, ch_async, active, oops,
           nr_mappings, mappings, apple>>
step == <<sent, wrote, ran, vblank, warn, oob, memops, reply, drm, last>>
vars == <<engine, step, inputs, owed, pending, codec, parser, cpu>>

(***************************************************************************)
(* Bounds of the model                                                     *)
(***************************************************************************)
\* a run takes at most MaxInputs inputs that the engine did not ask for:
\* every dcp_swap and every received word count, except an ack that arrives
\* for a call channel with a call outstanding
MaxInputs == 2

CallChannels == {"ch_cmd", "ch_oobcmd"}
CbChannels == {"ch_cb", "ch_oobcb", "ch_async"}
Channels == CallChannels \cup CbChannels

\* what an out-of-bounds read or write can turn out to be
\* (a read of end[] and a store of a frame can fall in one step, a read of
\* callbacks[] falls alone: every pair of u16 and write is listed)
UbChoices ==
    { [u16 |-> 100, cbptr |-> NULL, write |-> "stray"],
      [u16 |-> 100, cbptr |-> "wild", write |-> "oops"],
      [u16 |-> 65472, cbptr |-> NULL, write |-> "oops"],
      [u16 |-> 65472, cbptr |-> "wild", write |-> "stray"] }

\* the engine state at the start of an entry point
Cur(ub) ==
    [ ch_cmd |-> ch_cmd, ch_oobcmd |-> ch_oobcmd, ch_cb |-> ch_cb,
      ch_oobcb |-> ch_oobcb, ch_async |-> ch_async, active |-> active,
      nr_mappings |-> nr_mappings, mappings |-> mappings, apple |-> apple,
      memops |-> <<>>, reply |-> <<>>, drm |-> <<>>,
      oops |-> FALSE, sent |-> <<>>, wrote |-> {}, ran |-> <<>>, vblank |-> 0,
      warn |-> 0, oob |-> {}, hret |-> TRUE, ub |-> ub ]

Depths == [c \in Channels |->
              CASE c = "ch_cmd" -> ch_cmd.depth [] c = "ch_oobcmd" -> ch_oobcmd.depth
                [] c = "ch_cb" -> ch_cb.depth [] c = "ch_oobcb" -> ch_oobcb.depth
                [] c = "ch_async" -> ch_async.depth]

Contexts == 0 .. 5
CbContexts == {DCP_CONTEXT_CB, DCP_CONTEXT_OOBCB, DCP_CONTEXT_ASYNC}

\* the word is a non-ack Message on callback context c
IsCallbackOn(message, c) ==
    /\ msg_type(message) = DCPEP_TYPE_MESSAGE
    /\ ~msg_ack(message)
    /\ msg_ctx(message) = c
    /\ c \in CbContexts

\* the word is an ack for a call channel that has a call outstanding
AnswersCall(message) ==
    /\ msg_type(message) = DCPEP_TYPE_MESSAGE
    /\ msg_ack(message)
    /\ dcp_get_call_channel(msg_ctx(message)) # NULL
    /\ \/ Depths[dcp_get_call_channel(msg_ctx(message))] \in 1 .. DCP_MAX_CALL_DEPTH
       \/ pending[dcp_get_call_channel(msg_ctx(message))] # <<>>

\* the word is an ack on a context served by call channel c
IsAckOn(message, c) ==
    /\ msg_type(message) = DCPEP_TYPE_MESSAGE
    /\ msg_ack(message)
    /\ dcp_get_call_channel(msg_ctx(message)) = c

\* the calls of channel c left outstanding by a step that received `message`
\* and ended in s: the ack completes the newest one, each packet written by
\* dcp_push for a context of c adds one
PendingAfter(s, op, message, c) ==
    LET acked == IF op = "recv" /\ IsAckOn(message, c) /\ pending[c] # <<>>
                 THEN SubSeq(pending[c], 1, Len(pending[c]) - 1)
                 ELSE pending[c]
        pushed == { w \in s.wrote : w.by = "dcp_push" }
        here == \E i \in 1 .. Len(s.sent) :
                    /\ ~msg_ack(s.sent[i])
                    /\ dcp_get_call_channel(msg_ctx(s.sent[i])) = c
    IN IF here /\ pushed # {}
       THEN Append(acked, (CHOOSE w \in pushed : TRUE).tag)
       ELSE acked

CommitEngine(s, op, message, p) ==
    /\ inputs' = inputs + (IF \/ op = "recv" /\ ~AnswersCall(message)
                              \/ op = "swap"
                           THEN 1 ELSE 0)
    /\ inputs' <= MaxInputs
    /\ owed' = [c \in Contexts |->
                  owed[c]
                  + (IF op = "recv" /\ IsCallbackOn(message, c) THEN 1 ELSE 0)
                  - Cardinality({i \in 1 .. Len(s.sent) :
                        msg_ack(s.sent[i]) /\ msg_ctx(s.sent[i]) = c})]
    /\ pending' = [c \in CallChannels |-> PendingAfter(s, op, message, c)]
    /\ ch_cmd' = s.ch_cmd /\ ch_oobcmd' = s.ch_oobcmd
    /\ ch_cb' = s.ch_cb /\ ch_oobcb' = s.ch_oobcb /\ ch_async' = s.ch_async
    /\ active' = s.active /\ oops' = s.oops
    /\ nr_mappings' = s.nr_mappings /\ mappings' = s.mappings
    /\ apple' = s.apple /\ drm' = s.drm
    /\ memops' = s.memops /\ reply' = s.reply
    /\ sent' = s.sent /\ wrote' = s.wrote /\ ran' = s.ran
    /\ vblank' = s.vblank /\ warn' = s.warn /\ oob' = s.oob
    /\ last' = [op |-> op, message |-> message, p |-> p, pre |-> Depths,
                was_active |-> active]

Commit(s, op, message, p) ==
    /\ CommitEngine(s, op, message, p)
    /\ UNCHANGED <<codec, parser, cpu>>

(***************************************************************************)
(* Inputs: the words the coprocessor can send and what it leaves in the    *)
(* shared buffer at the place a word names                                 *)
(***************************************************************************)
Word(type, ack, ctx, offset) ==
    <<type + (IF ack THEN 64 ELSE 0) + 256 * ctx, offset, 0, 0>>

\* a request with no field set
NoReq == [x |-> U64(0), y |-> U64(0), dma_ok |-> TRUE, sgt_ok |-> TRUE]

NoPacket ==
    [tag |-> <<"0", "0", "0", "0">>, in_len |-> 0, out_len |-> 0, val |-> 0,
     req |-> NoReq]

CbTags ==
    { <<"6", "1", "1", "D">>,    \* D116 start_hardware_boot
      <<"7", "0", "1", "D">>,    \* D107 create_provider_service (true)
      <<"1", "1", "1", "D">>,    \* D111 create_backlight_service (false)
      <<"9", "8", "5", "D">>,    \* D589 swap_complete_ap_gated
      <<"9", "9", "9", "D">>,    \* D999: no handler
      <<"1", "0", "4", "A">>,    \* A401: not a callback tag
      <<"1", "x", "1", "D">> }   \* not a number

PlainWords ==
    { Word(type, FALSE, 0, 0) :
        type \in {DCPEP_TYPE_SET_SHMEM, DCPEP_TYPE_INITIALIZED, 3} }

\* an ack names a context and either offset 0 (where the first packet of a
\* window lies) with in_len 0 and a zero first word, or offset 64 with
\* in_len 4 and a non-zero first word
AckInputs ==
    { <<Word(DCPEP_TYPE_MESSAGE, TRUE, c, 0),
        [tag |-> <<"0", "0", "0", "0">>, in_len |-> 0, out_len |-> 0, val |-> 0,
         req |-> NoReq]>> :
          c \in Contexts }
    \cup
    { <<Word(DCPEP_TYPE_MESSAGE, TRUE, c, 64),
        [tag |-> <<"0", "0", "0", "0">>, in_len |-> 4, out_len |-> 0, val |-> 1,
         req |-> NoReq]>> :
          c \in Contexts }

\* a callback packet carries 4 bytes of input and lies at offset 64 of the
\* Async window and at offset 0 of every other one
CbInputs ==
    { <<Word(DCPEP_TYPE_MESSAGE, FALSE, c, IF c = DCP_CONTEXT_ASYNC THEN 64 ELSE 0),
        [tag |-> tg, in_len |-> 4, out_len |-> 4, val |-> 0, req |-> NoReq]>> :
          c \in Contexts, tg \in CbTags }

(***************************************************************************)
(* Actions: the entry points of the engine                                 *)
(***************************************************************************)
CodecOff ==
    [ pc |-> "off", id |-> 0, length |-> <<0, 0>>, offset |-> 0, ack |-> FALSE,
      word |-> <<0, 0, 0, 0>>,
      out |-> [type |-> 0, ack |-> FALSE, ctx |-> 0, offset |-> 0, length |-> <<0, 0>>] ]

\* a call as dcp_push gets it
NoCall ==
    [ context |-> DCP_CONTEXT_CMD, method |-> "start_signal", in_len |-> 0,
      out_len |-> 0, data |-> 0, cb |-> NULL, cookie |-> NULL ]

\* a thread outside the engine; depth and offset are the locals of dcp_push
\* and dcpep_handle_ack
Idle == [pc |-> "idle", depth |-> 0, offset |-> 0, call |-> NoCall]

\* rx is the thread of the receive path (rtkit_ops.recv_message), drm the
\* thread of the atomic commit; calls are the calls the coprocessor has to
\* answer, oldest first.  probe is the place of dcp_platform_probe, shmem is
\* dcp->shmem, iova the address dma_alloc_coherent gave, log the words sent
\* and the packets written since the endpoint was started
CpuOff ==
    [ rx |-> Idle, drm |-> Idle, calls |-> <<>>,
      probe |-> "done", shmem |-> "set", iova |-> <<0, 0, 0, 0>>, log |-> <<>> ]

\* no blob has been handed to the parser
ParserOff ==
    [ blob |-> <<>>, op |-> "off", ret |-> 0, n |-> 0, out |-> <<>>,
      h |-> [blob |-> <<>>, pos |-> 0, len |-> 0, reads |-> {}],
      before |-> [blob |-> <<>>, pos |-> 0, len |-> 0, reads |-> {}] ]

\* dcp->apple is NULL until apple_platform_probe links the display driver
NoDisplay == [link |-> "NULL", vsync_disabled |-> FALSE, event |-> FALSE]

\* devm_kzalloc: every field of struct apple_dcp but the mapping counter and
\* table, which InitMem draws
Probed ==
    /\ ch_cmd = EmptyCallChannel /\ ch_oobcmd = EmptyCallChannel
    /\ ch_cb = EmptyCbChannel /\ ch_oobcb = EmptyCbChannel
    /\ ch_async = EmptyCbChannel
    /\ active = FALSE /\ oops = FALSE
    /\ sent = <<>> /\ wrote = {} /\ ran = <<>> /\ vblank = 0 /\ warn = 0
    /\ oob = {} /\ memops = <<>> /\ reply = <<>> /\ drm = <<>>
    /\ apple = NoDisplay
    /\ last = [op |-> "probe", message |-> <<0, 0, 0, 0>>, p |-> NoPacket,
               pre |-> [c \in Channels |-> 0], was_active |-> FALSE]
    /\ inputs = 0
    /\ owed = [c \in Contexts |-> 0]
    /\ pending = [c \in CallChannels |-> <<>>]
    /\ codec = CodecOff
    /\ cpu = CpuOff

Init ==
    /\ Probed
    /\ nr_mappings = <<0, 0>> /\ mappings = {}
    /\ parser = ParserOff

\* rtkit_ops.recv_message = dcp_got_msg
Recv(message, p) ==
    /\ ~oops
    /\ \E ub \in UbChoices : Commit(dcp_got_msg(Cur(ub), message, p), "recv", message, p)

RecvPlain == \E m \in PlainWords : Recv(m, NoPacket)
RecvAck == \E i \in AckInputs : Recv(i[1], i[2])
RecvCb == \E i \in CbInputs : Recv(i[1], i[2])

\* a step of the display driver that only changes dcp->apple
Display(a) ==
    /\ ~oops
    /\ Commit([Cur(CHOOSE ub \in UbChoices : TRUE) EXCEPT !.apple = a],
              "display", <<0, 0, 0, 0>>, NoPacket)

\* apple_platform_probe: goes on once dcp_is_initialized, calls dcp_link
Link ==
    /\ active /\ apple.link = "NULL"
    /\ Display([apple EXCEPT !.link = "linked"])

\* apple_platform_probe: apple->crtc = crtc
CrtcInit ==
    /\ apple.link = "linked"
    /\ Display([apple EXCEPT !.link = "ready"])

\* apple_crtc_atomic_flush -> dcp_swap
Swap ==
    /\ ~oops
    /\ apple.link = "ready"
    /\ \E ub \in UbChoices :
          Commit(dcp_swap(Cur(ub)), "swap", <<0, 0, 0, 0>>, NoPacket)

Next == RecvPlain \/ RecvAck \/ RecvCb \/ Link \/ CrtcInit \/ Swap

Spec == Init /\ [][Next]_vars

(***************************************************************************)
(* The memory handlers, reached through the dispatcher by callbacks on the *)
(* Callback context.  A session starts at a counter value and a table that *)
(* earlier map_physical and allocate_buffer callbacks leave behind.        *)
(***************************************************************************)
MemStarts ==
    { <<<<0, 0>>, {}>>, <<<<1, 0>>, {1}>>, <<<<126, 0>>, {}>>, <<<<126, 0>>, {126}>>,
      <<<<127, 0>>, {1, 127}>>, <<<<65535, 65535>>, {1}>> }

InitMem ==
    /\ Probed
    /\ parser = ParserOff
    /\ \E st \in MemStarts : nr_mappings = st[1] /\ mappings = st[2]

MemPacket(tg, req) ==
    <<Word(DCPEP_TYPE_MESSAGE, FALSE, DCP_CONTEXT_CB, 0),
      [tag |-> tg, in_len |-> 20, out_len |-> 28, val |-> 0, req |-> req]>>

\* D452 map_physical: a whole window, the first page of physical memory, a
\* range that starts in a window and ends behind it, a size that wraps
PhysRanges ==
    { <<registers[2][1], registers[2][2]>>,
      <<U64(0), U64(PAGE_SIZE)>>,
      <<registers[2][1], U64(2 * 16384)>>,
      <<registers[6][1], <<65535, 65535, 65535, 65535>>>> }

RecvMapPhysical ==
    \E r \in PhysRanges, ok \in BOOLEAN :
        LET i == MemPacket(<<"2", "5", "4", "D">>,
                           [x |-> r[1], y |-> r[2], dma_ok |-> ok, sgt_ok |-> TRUE])
        IN Recv(i[1], i[2])

\* D451 allocate_buffer
RecvAllocate ==
    \E size \in {1, PAGE_SIZE}, ok \in BOOLEAN, sgt \in BOOLEAN :
        LET i == MemPacket(<<"1", "5", "4", "D">>,
                           [x |-> U64(0), y |-> U64(size), dma_ok |-> ok, sgt_ok |-> sgt])
        IN Recv(i[1], i[2])

\* D201 map_piodma
RecvMapPiodma ==
    \E buffer \in {U64(0), U64(1), U64(2), U64(127), U64(128), <<1, 0, 0, 1>>},
       ok \in BOOLEAN :
        LET i == MemPacket(<<"1", "0", "2", "D">>,
                           [x |-> buffer, y |-> U64(0), dma_ok |-> ok, sgt_ok |-> TRUE])
        IN Recv(i[1], i[2])

\* D411 map_reg
RecvMapReg ==
    \E index \in {U64(0), U64(6), U64(7), <<0, 1, 0, 0>>} :
        LET i == MemPacket(<<"1", "1", "4", "D">>,
                           [x |-> index, y |-> U64(0), dma_ok |-> TRUE, sgt_ok |-> TRUE])
        IN Recv(i[1], i[2])

NextMem == RecvMapPhysical \/ RecvAllocate \/ RecvMapPiodma \/ RecvMapReg

SpecMem == InitMem /\ [][NextMem]_vars

(***************************************************************************)
(* The codec alone: a tuple is encoded by dcpep_msg and the word decoded   *)
(* by the extractions of dcp_got_msg and dcpep_got_msg                     *)
(***************************************************************************)
CodecOffsets == {0, 1, 64, 32768, 65535}
CodecLengths == {<<0, 0>>, <<12, 0>>, <<65535, 0>>, <<0, 1>>, <<65535, 65535>>}

InitCodec ==
    /\ ch_cmd = EmptyCallChannel /\ ch_oobcmd = EmptyCallChannel
    /\ ch_cb = EmptyCbChannel /\ ch_oobcb = EmptyCbChannel
    /\ ch_async = EmptyCbChannel
    /\ active = FALSE /\ oops = FALSE
    /\ sent = <<>> /\ wrote = {} /\ ran = <<>> /\ vblank = 0 /\ warn = 0
    /\ oob = {} /\ memops = <<>> /\ reply = <<>> /\ drm = <<>>
    /\ apple = NoDisplay
    /\ nr_mappings = <<0, 0>> /\ mappings = {}
    /\ last = [op |-> "probe", message |-> <<0, 0, 0, 0>>, p |-> NoPacket,
               pre |-> [c \in Channels |-> 0], was_active |-> FALSE]
    /\ inputs = 0
    /\ owed = [c \in Contexts |-> 0]
    /\ pending = [c \in CallChannels |-> <<>>]
    /\ parser = ParserOff
    /\ cpu = CpuOff
    /\ \E id \in 0 .. 15, length \in CodecLengths, offset \in CodecOffsets,
          ack \in BOOLEAN :
          codec = [CodecOff EXCEPT !.pc = "in", !.id = id, !.length = length,
                                   !.offset = offset, !.ack = ack]

Encode ==
    /\ codec.pc = "in"
    /\ codec' = [codec EXCEPT !.pc = "word",
                    !.word = dcpep_msg(codec.id, codec.length, codec.offset, codec.ack)]
    /\ UNCHANGED <<engine, step, inputs, owed, pending, parser, cpu>>

Decode ==
    /\ codec.pc = "word"
    /\ codec' = [codec EXCEPT !.pc = "out",
                    !.out = [ type |-> msg_type(codec.word),
                              ack |-> msg_ack(codec.word),
                              ctx |-> msg_ctx(codec.word),
                              offset |-> msg_offset(codec.word),
                              length |-> msg_length(codec.word) ]]
    /\ UNCHANGED <<engine, step, inputs, owed, pending, parser, cpu>>

NextCodec == Encode \/ Decode

SpecCodec == InitCodec /\ [][NextCodec]_vars

(***************************************************************************)
(* The tag parser alone: a four-character code is stored in the packet     *)
(* header in reverse order (as dcp_push stores a method's tag) and the     *)
(* stored bytes are parsed by dcp_parse_tag                                *)
(***************************************************************************)
TagChars == {"0", "1", "2", "3", "9", "D", "A", "x"}

InitTag ==
    /\ ch_cmd = EmptyCallChannel /\ ch_oobcmd = EmptyCallChannel
    /\ ch_cb = EmptyCbChannel /\ ch_oobcb = EmptyCbChannel
    /\ ch_async = EmptyCbChannel
    /\ active = FALSE /\ oops = FALSE
    /\ sent = <<>> /\ wrote = {} /\ ran = <<>> /\ vblank = 0 /\ warn = 0
    /\ oob = {} /\ memops = <<>> /\ reply = <<>> /\ drm = <<>>
    /\ apple = NoDisplay
    /\ nr_mappings = <<0, 0>> /\ mappings = {}
    /\ last = [op |-> "probe", message |-> <<0, 0, 0, 0>>, p |-> NoPacket,
               pre |-> [c \in Channels |-> 0], was_active |-> FALSE]
    /\ inputs = 0
    /\ owed = [c \in Contexts |-> 0]
    /\ pending = [c \in CallChannels |-> <<>>]
    /\ parser = ParserOff
    /\ cpu = CpuOff
    /\ \E c1 \in TagChars, c2 \in TagChars, c3 \in TagChars, c4 \in TagChars :
          codec = [pc |-> "code", code |-> <<c1, c2, c3, c4>>,
                   tag |-> <<"0", "0", "0", "0">>, id |-> 0]

\* the header's tag[0..3]: the code's characters, last first
StoreTag ==
    /\ codec.pc = "code"
    /\ codec' = [codec EXCEPT !.pc = "stored", !.tag = Reverse4(codec.code)]
    /\ UNCHANGED <<engine, step, inputs, owed, pending, parser, cpu>>

ParseTag ==
    /\ codec.pc = "stored"
    /\ codec' = [codec EXCEPT !.pc = "parsed", !.id = dcp_parse_tag(codec.tag)]
    /\ UNCHANGED <<engine, step, inputs, owed, pending, parser, cpu>>

NextTag == StoreTag \/ ParseTag

SpecTag == InitTag /\ [][NextTag]_vars

(***************************************************************************)
(* The swap path after bring-up: dcp_swap is reachable only from           *)
(* apple_crtc_atomic_flush, that is after apple_platform_probe saw         *)
(* dcp_is_initialized, linked the display driver and created the CRTC      *)
(***************************************************************************)
\* the command channel once the coprocessor said Initialized and acked
\* start_signal, set_display_device and set_digital_out_mode: depth 0 again,
\* slot 0 as the last push left it
BootedCmd ==
    [EmptyCallChannel EXCEPT !.callbacks[0] = "modeset_done",
                             !.output[0] = HEADER_SIZE + 8,
                             !.end[0] = DCP_PACKET_ALIGNMENT]

InitSwap ==
    /\ ch_cmd = BootedCmd /\ ch_oobcmd = EmptyCallChannel
    /\ ch_cb = EmptyCbChannel /\ ch_oobcb = EmptyCbChannel
    /\ ch_async = EmptyCbChannel
    /\ active = TRUE /\ oops = FALSE
    /\ nr_mappings = <<0, 0>> /\ mappings = {}
    /\ apple = [NoDisplay EXCEPT !.link = "ready"]
    /\ sent = <<>> /\ wrote = {} /\ ran = <<>> /\ vblank = 0 /\ warn = 0
    /\ oob = {} /\ memops = <<>> /\ reply = <<>> /\ drm = <<>>
    /\ last = [op |-> "probe", message |-> <<0, 0, 0, 0>>, p |-> NoPacket,
               pre |-> [c \in Channels |-> 0], was_active |-> TRUE]
    /\ inputs = 0
    /\ owed = [c \in Contexts |-> 0]
    /\ pending = [c \in CallChannels |-> <<>>]
    /\ codec = CodecOff
    /\ cpu = CpuOff
    /\ parser = ParserOff

TagSwapComplete == <<"9", "8", "5", "D">>

\* D589 arrives on one of the callback contexts
RecvSwapComplete ==
    \E i \in { j \in CbInputs : j[2].tag = TagSwapComplete } : Recv(i[1], i[2])

\* apple_enable_vblank
EnableVblank ==
    /\ apple.link = "ready" /\ apple.vsync_disabled
    /\ Display([apple EXCEPT !.vsync_disabled = FALSE])

\* apple_disable_vblank: the DRM core turns vblanks off only while nobody
\* holds a vblank reference, and a stored event holds one
DisableVblank ==
    /\ apple.link = "ready" /\ ~apple.vsync_disabled /\ ~apple.event
    /\ Display([apple EXCEPT !.vsync_disabled = TRUE])

\* apple_crtc_atomic_begin with an event in the new state:
\* drm_crtc_vblank_get turns vblanks on, then the event is stored
AtomicBegin ==
    /\ apple.link = "ready" /\ ~apple.event
    /\ Display([apple EXCEPT !.event = TRUE, !.vsync_disabled = FALSE])

TagHotplug == <<"6", "7", "5", "D">>

\* D576 hotplug_notify_gated arrives on one of the callback contexts; the
\* first word of its input (p.val) says whether a display is connected
RecvHotplug ==
    \E c \in CbContexts, connected \in {0, 1} :
        Recv(Word(DCPEP_TYPE_MESSAGE, FALSE, c, IF c = DCP_CONTEXT_ASYNC THEN 64 ELSE 0),
             [tag |-> TagHotplug, in_len |-> 8, out_len |-> 0, val |-> connected,
              req |-> NoReq])

NextSwap ==
    Swap \/ RecvAck \/ RecvSwapComplete \/ RecvHotplug \/ EnableVblank
    \/ DisableVblank \/ AtomicBegin

SpecSwap == InitSwap /\ [][NextSwap]_vars

(***************************************************************************)
(* parser.c: the reader of serialized dictionaries.  A handle h is struct  *)
(* dcp_parse_ctx (blob, pos, len) with the set of blob indices the code    *)
(* has dereferenced so far.  Byte i of the blob is h.blob[i + 1].          *)
(***************************************************************************)
OSSERIALIZE_HDR == 211
OS_OTYPE_DICTIONARY == 1
OS_OTYPE_ARRAY == 2
OS_OTYPE_INT64 == 4
OS_OTYPE_STRING == 9
OS_OTYPE_BLOB == 10
OS_OTYPE_BOOL == 11

\* the element of a one-element set: { e(x) : x \in {v} } binds v once
Only(S) == CHOOSE x \in S : TRUE

Handle(blob, size) == [blob |-> blob, pos |-> 0, len |-> size, reads |-> {}]

\* the code dereferences n bytes from index from
Deref(h, from, n) == [h EXCEPT !.reads = @ \cup (from .. from + n - 1)]

\* the byte at index i; outside the buffer a load finds whatever is there
ByteAt(h, i) == IF i < Len(h.blob) THEN h.blob[i + 1] ELSE 0

BytesAt(h, from, n) == [k \in 1 .. n |-> ByteAt(h, from + k - 1)]

\* parse_bytes with the length test left out
parse_bytes_unchecked(h, count) ==
    [h |-> [h EXCEPT !.pos = @ + count], err |-> 0, ptr |-> h.pos]

\* ERR_PTR(-EINVAL) is err = EINVAL_NEG; ptr is the index of the first byte
parse_bytes(h, count) ==
    IF h.pos + count > h.len
    THEN [h |-> h, err |-> EINVAL_NEG, ptr |-> h.pos]
    ELSE [h |-> [h EXCEPT !.pos = @ + count], err |-> 0, ptr |-> h.pos]

parse_u32(h) == parse_bytes(h, 4)

\* no alignment at all
round_up_none(x, a) == x

round_up(x, a) == ((x + a - 1) \div a) * a

\* struct os_tag: size in bits 23:0, type in bits 28:24, padding in bits
\* 30:29, last in bit 31 of a little-endian word
TagAt(h, ptr) ==
    [ size |-> ByteAt(h, ptr) + 256 * ByteAt(h, ptr + 1) + 65536 * ByteAt(h, ptr + 2),
      type |-> ByteAt(h, ptr + 3) % 32,
      padding |-> (ByteAt(h, ptr + 3) \div 32) % 4,
      last |-> ByteAt(h, ptr + 3) \div 128 ]

NoTag == [size |-> 0, type |-> 0, padding |-> 0, last |-> 0]

parse_tag(h) ==
    LET h1 == [h EXCEPT !.pos = round_up(h.pos, 4)]
        b == parse_bytes(h1, 4)
    IN IF b.err # 0 THEN [h |-> b.h, err |-> b.err, tag |-> NoTag]
       ELSE LET h2 == Deref(b.h, b.ptr, 4)
                tag == TagAt(h2, b.ptr)
            IN IF tag.padding # 0 THEN [h |-> h2, err |-> EINVAL_NEG, tag |-> NoTag]
               ELSE [h |-> h2, err |-> 0, tag |-> tag]

parse_tag_type(h, type) ==
    LET t == parse_tag(h) IN
    IF t.err # 0 THEN t
    ELSE IF t.tag.type # type THEN [h |-> t.h, err |-> EINVAL_NEG, tag |-> NoTag]
    ELSE t

\* ret |= x for return codes that are 0 or -EINVAL
OrRet(a, b) == IF a = 0 THEN b ELSE a

RECURSIVE skip(_)
RECURSIVE skip_n(_, _, _)

\* the body of the for loops of skip: n more calls of skip, ret or-ed up
skip_n(h, n, ret) ==
    IF n = 0 THEN [h |-> h, ret |-> ret]
    ELSE Only({ skip_n(r.h, n - 1, OrRet(ret, r.ret)) : r \in {skip(h)} })

\* skip that takes a Dictionary of n pairs for n values
skip_dict_as_array(h) ==
    Only({ IF t.err # 0 THEN [h |-> t.h, ret |-> t.err]
           ELSE CASE t.tag.type \in {OS_OTYPE_DICTIONARY, OS_OTYPE_ARRAY} ->
                       skip_n(t.h, t.tag.size, 0)
                  [] t.tag.type = OS_OTYPE_INT64 ->
                       [h |-> [t.h EXCEPT !.pos = @ + 8], ret |-> 0]
                  [] t.tag.type \in {OS_OTYPE_STRING, OS_OTYPE_BLOB} ->
                       [h |-> [t.h EXCEPT !.pos = @ + t.tag.size], ret |-> 0]
                  [] t.tag.type = OS_OTYPE_BOOL -> [h |-> t.h, ret |-> 0]
                  [] OTHER -> [h |-> t.h, ret |-> EINVAL_NEG] :
           t \in {parse_tag(h)} })

skip(h) ==
    Only({ IF t.err # 0 THEN [h |-> t.h, ret |-> t.err]
           ELSE CASE t.tag.type = OS_OTYPE_DICTIONARY -> skip_n(t.h, 2 * t.tag.size, 0)
                  [] t.tag.type = OS_OTYPE_ARRAY -> skip_n(t.h, t.tag.size, 0)
                  [] t.tag.type = OS_OTYPE_INT64 ->
                       [h |-> [t.h EXCEPT !.pos = @ + 8], ret |-> 0]
                  [] t.tag.type \in {OS_OTYPE_STRING, OS_OTYPE_BLOB} ->
                       [h |-> [t.h EXCEPT !.pos = @ + t.tag.size], ret |-> 0]
                  [] t.tag.type = OS_OTYPE_BOOL -> [h |-> t.h, ret |-> 0]
                  [] OTHER -> [h |-> t.h, ret |-> EINVAL_NEG] :
           t \in {parse_tag(h)} })

\* the buffer parse_string returns: the bytes and a terminating zero
parse_string(h) ==
    LET t == parse_tag_type(h, OS_OTYPE_STRING) IN
    IF t.err # 0 THEN [h |-> t.h, err |-> t.err, out |-> <<>>]
    ELSE LET b == parse_bytes(t.h, t.tag.size) IN
         IF b.err # 0 THEN [h |-> b.h, err |-> b.err, out |-> <<>>]
         ELSE LET h2 == Deref(b.h, b.ptr, t.tag.size) IN
              [h |-> h2, err |-> 0,
               out |-> BytesAt(h2, b.ptr, t.tag.size) \o <<0>>]

\* s64 as four 16-bit limbs, low limb first, from eight little-endian bytes
S64OfBytes(bs) == [k \in 1 .. 4 |-> bs[2 * k - 1] + 256 * bs[2 * k]]

parse_int64(h) ==
    LET t == parse_tag_type(h, OS_OTYPE_INT64) IN
    IF t.err # 0 THEN [h |-> t.h, ret |-> t.err, value |-> U64(0)]
    ELSE LET b == parse_bytes(t.h, 8) IN
         IF b.err # 0 THEN [h |-> b.h, ret |-> b.err, value |-> U64(0)]
         ELSE LET h2 == Deref(b.h, b.ptr, 8) IN
              [h |-> h2, ret |-> 0, value |-> S64OfBytes(BytesAt(h2, b.ptr, 8))]

parse_bool(h) ==
    LET t == parse_tag_type(h, OS_OTYPE_BOOL) IN
    IF t.err # 0 THEN [h |-> t.h, ret |-> t.err, b |-> FALSE]
    ELSE [h |-> t.h, ret |-> 0, b |-> (t.tag.size # 0)]

\* it = (idx, len), zeroed by the compound literal before the tag is read
iterator_begin(h, dictionary) ==
    LET type == IF dictionary THEN OS_OTYPE_DICTIONARY ELSE OS_OTYPE_ARRAY
        t == parse_tag_type(h, type)
    IN IF t.err # 0 THEN [h |-> t.h, ret |-> t.err, it |-> [idx |-> 0, len |-> 0]]
       ELSE [h |-> t.h, ret |-> 0, it |-> [idx |-> 0, len |-> t.tag.size]]

\* *header is compared as a u32: byte 0 is the magic, bytes 1..3 are zero
parse(blob, size) ==
    LET b == parse_u32(Handle(blob, size)) IN
    IF b.err # 0 THEN [h |-> b.h, ret |-> b.err]
    ELSE LET h2 == Deref(b.h, b.ptr, 4) IN
         IF BytesAt(h2, b.ptr, 4) # <<OSSERIALIZE_HDR, 0, 0, 0>>
         THEN [h |-> h2, ret |-> EINVAL_NEG]
         ELSE [h |-> h2, ret |-> 0]

\* peek_type parses the tag on a copy of the handle and reads tag->type
\* without testing IS_ERR: when parse_tag failed the load goes through an
\* error pointer, and ub says what it does (fault, or the type it finds)
peek_type(h, ub) ==
    Only({ IF t.err # 0 THEN ub ELSE [fault |-> FALSE, type |-> t.tag.type] :
           t \in {parse_tag(h)} })

RECURSIVE print_value(_, _)
RECURSIVE print_dict_pairs(_, _, _)
RECURSIVE print_array_values(_, _, _)

\* the loop of print_dict: n pairs to go
print_dict_pairs(h, n, ub) ==
    IF n = 0 THEN [h |-> h, ret |-> 0, fault |-> FALSE]
    ELSE Only({
        IF k.err # 0 THEN [h |-> k.h, ret |-> k.err, fault |-> FALSE]
        ELSE Only({ IF v.fault \/ v.ret # 0 THEN v
                    ELSE print_dict_pairs(v.h, n - 1, ub) :
                    v \in {print_value(k.h, ub)} }) :
        k \in {parse_string(h)} })

print_dict(h, ub) ==
    Only({ print_dict_pairs(it.h, it.it.len, ub) : it \in {iterator_begin(h, TRUE)} })

\* the loop of print_array: n values to go
print_array_values(h, n, ub) ==
    IF n = 0 THEN [h |-> h, ret |-> 0, fault |-> FALSE]
    ELSE Only({ IF v.fault \/ v.ret # 0 THEN v
                ELSE print_array_values(v.h, n - 1, ub) :
                v \in {print_value(h, ub)} })

print_array(h, ub) ==
    Only({ print_array_values(it.h, it.it.len, ub) :
           it \in {iterator_begin(h, FALSE)} })

\* the typed parse of one value of any type; a Blob is passed over with
\* skip, whose return code is dropped
print_value(h, ub) ==
    Only({
        IF ty.fault THEN [h |-> h, ret |-> 0, fault |-> TRUE]
        ELSE CASE ty.type = OS_OTYPE_DICTIONARY -> print_dict(h, ub)
               [] ty.type = OS_OTYPE_ARRAY -> print_array(h, ub)
               [] ty.type = OS_OTYPE_STRING ->
                    Only({ [h |-> r.h, ret |-> r.err, fault |-> FALSE] :
                           r \in {parse_string(h)} })
               [] ty.type = OS_OTYPE_BOOL ->
                    Only({ [h |-> r.h, ret |-> r.ret, fault |-> FALSE] :
                           r \in {parse_bool(h)} })
               [] ty.type = OS_OTYPE_INT64 ->
                    Only({ [h |-> r.h, ret |-> r.ret, fault |-> FALSE] :
                           r \in {parse_int64(h)} })
               [] ty.type = OS_OTYPE_BLOB ->
                    [h |-> skip(h).h, ret |-> 0, fault |-> FALSE]
               [] OTHER -> [h |-> h, ret |-> EINVAL_NEG, fault |-> FALSE] :
        ty \in {peek_type(h, ub)} })

(***************************************************************************)
(* The parser on its own: a blob arrives, parse builds the handle, then    *)
(* the caller applies operations of parser.c in any order                  *)
(***************************************************************************)
MaxWords == 3
MaxOps == 2

\* 32-bit words a blob is made of: the magic, a Dictionary of one pair, a
\* String of one byte, an Int64, a Bool, a Blob of six bytes, and a String
\* tag with a padding bit set
BlobWords ==
    { <<OSSERIALIZE_HDR, 0, 0, 0>>,
      <<1, 0, 0, OS_OTYPE_DICTIONARY>>,
      <<1, 0, 0, OS_OTYPE_STRING>>,
      <<0, 0, 0, OS_OTYPE_INT64>>,
      <<1, 0, 0, OS_OTYPE_BOOL>>,
      <<6, 0, 0, OS_OTYPE_BLOB>>,
      <<5, 0, 0, OS_OTYPE_STRING + 32>> }

RECURSIVE Flatten(_)
Flatten(ws) == IF ws = <<>> THEN <<>> ELSE Head(ws) \o Flatten(Tail(ws))

\* up to MaxWords words, the last one cut short by 0..3 bytes
Blobs ==
    { SubSeq(Flatten(ws), 1, 4 * Len(ws) - cut) :
        ws \in UNION { [1 .. n -> BlobWords] : n \in 0 .. MaxWords },
        cut \in 0 .. 3 } 

\* the state after an operation: handle before and after, return code (0 or
\* -EINVAL; for pointer returns the ERR_PTR code), and the value produced
Parsed(op, before, h, ret, out) ==
    [ blob |-> h.blob, h |-> h, op |-> op, ret |-> ret, n |-> parser.n + 1,
      before |-> before, out |-> out ]

InitParser ==
    /\ Probed
    /\ nr_mappings = <<0, 0>> /\ mappings = {}
    /\ \E blob \in Blobs :
          LET r == parse(blob, Len(blob)) IN
          parser = [ blob |-> blob, h |-> r.h, op |-> "parse", ret |-> r.ret,
                     n |-> 0, before |-> Handle(blob, Len(blob)), out |-> <<>> ]

Apply(p) ==
    /\ parser.n < MaxOps
    /\ parser' = p
    /\ UNCHANGED <<engine, step, inputs, owed, pending, codec, cpu>>

DoParse ==
    LET r == parse(parser.blob, Len(parser.blob)) IN
    Apply(Parsed("parse", Handle(parser.blob, Len(parser.blob)), r.h, r.ret, <<>>))

DoParseTag ==
    LET r == parse_tag(parser.h) IN
    Apply(Parsed("parse_tag", parser.h, r.h, r.err, r.tag))

DoParseString ==
    LET r == parse_string(parser.h) IN
    Apply(Parsed("parse_string", parser.h, r.h, r.err, r.out))

DoParseInt64 ==
    LET r == parse_int64(parser.h) IN
    Apply(Parsed("parse_int64", parser.h, r.h, r.ret, r.value))

DoParseBool ==
    LET r == parse_bool(parser.h) IN
    Apply(Parsed("parse_bool", parser.h, r.h, r.ret, r.b))

DoIteratorBegin ==
    \E dictionary \in BOOLEAN :
        LET r == iterator_begin(parser.h, dictionary) IN
        Apply(Parsed("iterator_begin", parser.h, r.h, r.ret, r.it))

DoSkip ==
    LET r == skip(parser.h) IN
    Apply(Parsed("skip", parser.h, r.h, r.ret, <<>>))

NextParser ==
    DoParse \/ DoParseTag \/ DoParseString \/ DoParseInt64 \/ DoParseBool
    \/ DoIteratorBegin \/ DoSkip

SpecParser == InitParser /\ [][NextParser]_vars

(***************************************************************************)
(* A dictionary of String keys and Int64 or Bool values, written in the    *)
(* wire format and read back the way parse_mode and parse_dimension read   *)
(* theirs: parse, iterator_begin, then parse_string and a typed parse for  *)
(* every pair                                                              *)
(***************************************************************************)
MaxPairs == 2

\* keys are C strings: bytes other than zero
DictKeys == { <<>>, <<73, 68>>, <<87, 105, 100>>, <<83, 99, 111, 114>>,
              <<72, 101, 105, 103, 104>> }

\* s64 values as little-endian limbs: 0, 1, -1, 2^63 - 1 and a mixed one
DictInts == { <<0, 0, 0, 0>>, <<1, 0, 0, 0>>, <<65535, 65535, 65535, 65535>>,
              <<65535, 65535, 65535, 32767>>, <<513, 1027, 0, 32768>> }

DictPairs ==
    { [key |-> k, type |-> OS_OTYPE_INT64, int |-> v, bool |-> FALSE] :
        k \in DictKeys, v \in DictInts }
    \cup
    { [key |-> k, type |-> OS_OTYPE_BOOL, int |-> <<0, 0, 0, 0>>, bool |-> b] :
        k \in DictKeys, b \in BOOLEAN }

\* a tag word: size in the low three bytes, type and the last bit in the top
PutTag(size, type, end) ==
    << size % 256, (size \div 256) % 256, (size \div 65536) % 256,
       type + (IF end THEN 128 ELSE 0) >>

\* zero bytes up to the next 4-byte boundary after n bytes
PadTo4(n) == [k \in 1 .. ((4 - (n % 4)) % 4) |-> 0]

BytesOfS64(v) ==
    << v[1] % 256, v[1] \div 256, v[2] % 256, v[2] \div 256,
       v[3] % 256, v[3] \div 256, v[4] % 256, v[4] \div 256 >>

PutPair(pr, end) ==
    PutTag(Len(pr.key), OS_OTYPE_STRING, FALSE) \o pr.key \o PadTo4(Len(pr.key))
    \o (IF pr.type = OS_OTYPE_INT64
        THEN PutTag(64, OS_OTYPE_INT64, end) \o BytesOfS64(pr.int)
        ELSE PutTag(IF pr.bool THEN 1 ELSE 0, OS_OTYPE_BOOL, end))

RECURSIVE PutPairs(_)
PutPairs(prs) ==
    IF prs = <<>> THEN <<>>
    ELSE PutPair(Head(prs), Len(prs) = 1) \o PutPairs(Tail(prs))

Serialize(prs) ==
    <<OSSERIALIZE_HDR, 0, 0, 0>>
    \o PutTag(Len(prs), OS_OTYPE_DICTIONARY, TRUE) \o PutPairs(prs)

\* what a char * shows of a buffer: the bytes before the first zero
RECURSIVE CStr(_)
CStr(buf) ==
    IF buf = <<>> \/ Head(buf) = 0 THEN <<>> ELSE <<Head(buf)>> \o CStr(Tail(buf))

\* the reader: src is the list that was written, got the pairs read so far,
\* key the key of the pair being read, it the iterator
InitDict ==
    /\ Probed
    /\ nr_mappings = <<0, 0>> /\ mappings = {}
    /\ \E prs \in UNION { [1 .. n -> DictPairs] : n \in 0 .. MaxPairs } :
          LET blob == Serialize(prs)
              r == parse(blob, Len(blob))
          IN parser = [ blob |-> blob, h |-> r.h, op |-> "parse", ret |-> r.ret,
                        src |-> prs, got |-> <<>>, key |-> <<>>, pc |-> "begin",
                        it |-> [idx |-> 0, len |-> 0] ]

Reader(p) ==
    /\ parser.ret = 0
    /\ parser' = p
    /\ UNCHANGED <<engine, step, inputs, owed, pending, codec, cpu>>

\* foreach_in_dict: iterator_begin, then the test idx < len
ReadBegin ==
    /\ parser.pc = "begin"
    /\ LET r == iterator_begin(parser.h, TRUE) IN
       Reader([parser EXCEPT !.h = r.h, !.op = "iterator_begin", !.ret = r.ret,
                             !.it = r.it,
                             !.pc = IF r.it.idx < r.it.len THEN "key" ELSE "done"])

ReadKey ==
    /\ parser.pc = "key"
    /\ LET r == parse_string(parser.h) IN
       Reader([parser EXCEPT !.h = r.h, !.op = "parse_string", !.ret = r.err,
                             !.key = CStr(r.out), !.pc = "value"])

\* the pair read, then ++it.idx and the test idx < len
Got(h, op, ret, pr) ==
    [parser EXCEPT !.h = h, !.op = op, !.ret = ret,
                   !.got = Append(@, pr),
                   !.it.idx = @ + 1,
                   !.pc = IF parser.it.idx + 1 < parser.it.len THEN "key" ELSE "done"]

\* the caller knows from the key which typed parse to use
ReadInt64 ==
    /\ parser.pc = "value"
    /\ parser.src[parser.it.idx + 1].type = OS_OTYPE_INT64
    /\ LET r == parse_int64(parser.h) IN
       Reader(Got(r.h, "parse_int64", r.ret,
                  [key |-> parser.key, type |-> OS_OTYPE_INT64, int |-> r.value,
                   bool |-> FALSE]))

ReadBool ==
    /\ parser.pc = "value"
    /\ parser.src[parser.it.idx + 1].type = OS_OTYPE_BOOL
    /\ LET r == parse_bool(parser.h) IN
       Reader(Got(r.h, "parse_bool", r.ret,
                  [key |-> parser.key, type |-> OS_OTYPE_BOOL, int |-> <<0, 0, 0, 0>>,
                   bool |-> r.b]))

NextDict == ReadBegin \/ ReadKey \/ ReadInt64 \/ ReadBool

SpecDict == InitDict /\ [][NextDict]_vars

(***************************************************************************)
(* parser.c: the reader of the TimingElements array.  foreach_in_array and *)
(* foreach_in_dict call iterator_begin and drop its return code; the loop  *)
(* runs it.len times                                                       *)
(***************************************************************************)
KeyScore == <<83, 99, 111, 114, 101>>
KeyID == <<73, 68>>
KeyActive == <<65, 99, 116, 105, 118, 101>>
KeyTotal == <<84, 111, 116, 97, 108>>
KeyFrontPorch == <<70, 114, 111, 110, 116, 80, 111, 114, 99, 104>>
KeyBackPorch == <<66, 97, 99, 107, 80, 111, 114, 99, 104>>
KeySyncWidth == <<83, 121, 110, 99, 87, 105, 100, 116, 104>>
KeySyncRate == <<83, 121, 110, 99, 82, 97, 116, 101>>
KeyPreciseSyncRate ==
    <<80, 114, 101, 99, 105, 115, 101, 83, 121, 110, 99, 82, 97, 116, 101>>
KeyHorizontalAttributes ==
    <<72, 111, 114, 105, 122, 111, 110, 116, 97, 108,
      65, 116, 116, 114, 105, 98, 117, 116, 101, 115>>
KeyVerticalAttributes ==
    <<86, 101, 114, 116, 105, 99, 97, 108,
      65, 116, 116, 114, 105, 98, 117, 116, 101, 115>>
KeyColorModes == <<67, 111, 108, 111, 114, 77, 111, 100, 101, 115>>
KeyIsPreferred == <<73, 115, 80, 114, 101, 102, 101, 114, 114, 101, 100>>

\* s64 on limbs: the sign is the top bit of the top limb
S64Minus1 == <<65535, 65535, 65535, 65535>>
S64Neg(v) == v[4] >= 32768
\* a comparison that also holds for equal values
S64Lt_orEqual(a, b) == a = b \/ (IF S64Neg(a) # S64Neg(b) THEN S64Neg(a) ELSE Lt64(a, b))

S64Lt(a, b) ==
    IF S64Neg(a) # S64Neg(b) THEN S64Neg(a) ELSE Lt64(a, b)

RECURSIVE color_mode_pairs(_, _, _, _)
\* the inner foreach_in_dict of parse_color_modes: n pairs to go.  stop is
\* TRUE when the function returns from inside the loop
color_mode_pairs(h, n, score, id) ==
    IF n = 0 THEN [h |-> h, ret |-> 0, stop |-> FALSE, score |-> score, id |-> id]
    ELSE Only({
        IF k.err # 0
        THEN [h |-> k.h, ret |-> k.err, stop |-> TRUE, score |-> score, id |-> id]
        ELSE IF CStr(k.out) = KeyScore
        THEN Only({ IF v.ret # 0
                    THEN [h |-> v.h, ret |-> v.ret, stop |-> TRUE,
                          score |-> score, id |-> id]
                    ELSE color_mode_pairs(v.h, n - 1, v.value, id) :
                    v \in {parse_int64(k.h)} })
        ELSE IF CStr(k.out) = KeyID
        THEN Only({ IF v.ret # 0
                    THEN [h |-> v.h, ret |-> v.ret, stop |-> TRUE,
                          score |-> score, id |-> id]
                    ELSE color_mode_pairs(v.h, n - 1, score, v.value) :
                    v \in {parse_int64(k.h)} })
        ELSE color_mode_pairs(skip(k.h).h, n - 1, score, id) :
        k \in {parse_string(h)} })

RECURSIVE color_mode_entries(_, _, _, _)
\* the outer foreach_in_array of parse_color_modes: n entries to go
color_mode_entries(h, n, best_score, best_id) ==
    IF n = 0 THEN [h |-> h, ret |-> 0, best_id |-> best_id]
    ELSE Only({
        Only({ IF e.stop THEN [h |-> e.h, ret |-> e.ret, best_id |-> best_id]
               ELSE IF S64Neg(e.score) \/ S64Neg(e.id)
               THEN color_mode_entries(e.h, n - 1, best_score, best_id)
               ELSE IF S64Lt(best_score, e.score)
               THEN color_mode_entries(e.h, n - 1, e.score, e.id)
               ELSE color_mode_entries(e.h, n - 1, best_score, best_id) :
               e \in {color_mode_pairs(it.h, it.it.len, S64Minus1, S64Minus1)} }) :
        it \in {iterator_begin(h, TRUE)} })

parse_color_modes(h) ==
    Only({ color_mode_entries(it.h, it.it.len, S64Minus1, S64Minus1) :
           it \in {iterator_begin(h, FALSE)} })

\* struct dimension; the caller's variable is not initialized, so a field
\* the blob does not name keeps the value it had
DimKeys ==
    { KeyActive, KeyTotal, KeyFrontPorch, KeyBackPorch, KeySyncWidth,
      KeySyncRate, KeyPreciseSyncRate }

RECURSIVE dimension_pairs(_, _, _, _)
\* parse_dimension that leaves the value of a key it does not know where
\* it is
dimension_pairs_noskip(h, n, dim, hp) ==
    IF n = 0 THEN [h |-> h, ret |-> 0, dim |-> dim]
    ELSE Only({
        IF k.err # 0 THEN [h |-> k.h, ret |-> hp, dim |-> dim]
        ELSE IF CStr(k.out) \in DimKeys
        THEN Only({ IF v.ret # 0 THEN [h |-> v.h, ret |-> v.ret, dim |-> dim]
                    ELSE dimension_pairs(v.h, n - 1,
                                         [dim EXCEPT ![CStr(k.out)] = v.value], hp) :
                    v \in {parse_int64(k.h)} })
        ELSE dimension_pairs(k.h, n - 1, dim, hp) :
        k \in {parse_string(h)} })

\* the foreach_in_dict of parse_dimension; hp is the handle pointer as an
\* int, which is what PTR_ERR(handle) returns when a key cannot be parsed
dimension_pairs(h, n, dim, hp) ==
    IF n = 0 THEN [h |-> h, ret |-> 0, dim |-> dim]
    ELSE Only({
        IF k.err # 0 THEN [h |-> k.h, ret |-> hp, dim |-> dim]
        ELSE IF CStr(k.out) \in DimKeys
        THEN Only({ IF v.ret # 0 THEN [h |-> v.h, ret |-> v.ret, dim |-> dim]
                    ELSE dimension_pairs(v.h, n - 1,
                                         [dim EXCEPT ![CStr(k.out)] = v.value], hp) :
                    v \in {parse_int64(k.h)} })
        ELSE dimension_pairs(skip(k.h).h, n - 1, dim, hp) :
        k \in {parse_string(h)} })

parse_dimension(h, dim, hp) ==
    Only({ dimension_pairs(it.h, it.it.len, dim, hp) :
           it \in {iterator_begin(h, TRUE)} })

RECURSIVE mode_pairs(_, _, _, _)
\* the foreach_in_dict of parse_mode; m holds the locals horiz, vert, id,
\* best_color_mode and is_preferred
mode_pairs(h, n, m, hp) ==
    IF n = 0 THEN [h |-> h, ret |-> 0, m |-> m, printed |-> TRUE]
    ELSE Only({
        IF k.err # 0 THEN [h |-> k.h, ret |-> k.err, m |-> m, printed |-> FALSE]
        ELSE IF key = KeyHorizontalAttributes
        THEN Only({ IF d.ret # 0
                    THEN [h |-> d.h, ret |-> d.ret, m |-> [m EXCEPT !.horiz = d.dim],
                          printed |-> FALSE]
                    ELSE mode_pairs(d.h, n - 1, [m EXCEPT !.horiz = d.dim], hp) :
                    d \in {parse_dimension(k.h, m.horiz, hp)} })
        ELSE IF key = KeyVerticalAttributes
        THEN Only({ IF d.ret # 0
                    THEN [h |-> d.h, ret |-> d.ret, m |-> [m EXCEPT !.vert = d.dim],
                          printed |-> FALSE]
                    ELSE mode_pairs(d.h, n - 1, [m EXCEPT !.vert = d.dim], hp) :
                    d \in {parse_dimension(k.h, m.vert, hp)} })
        ELSE IF key = KeyColorModes
        THEN Only({ IF c.ret # 0
                    THEN [h |-> c.h, ret |-> c.ret,
                          m |-> [m EXCEPT !.best_color_mode = c.best_id],
                          printed |-> FALSE]
                    ELSE mode_pairs(c.h, n - 1,
                                    [m EXCEPT !.best_color_mode = c.best_id], hp) :
                    c \in {parse_color_modes(k.h)} })
        ELSE IF key = KeyIsPreferred
        THEN Only({ IF b.ret # 0
                    THEN [h |-> b.h, ret |-> b.ret, m |-> m, printed |-> FALSE]
                    ELSE mode_pairs(b.h, n - 1, [m EXCEPT !.is_preferred = b.b], hp) :
                    b \in {parse_bool(k.h)} })
        ELSE IF key = KeyID
        THEN Only({ IF v.ret # 0
                    THEN [h |-> v.h, ret |-> v.ret, m |-> m, printed |-> FALSE]
                    ELSE mode_pairs(v.h, n - 1, [m EXCEPT !.id = v.value], hp) :
                    v \in {parse_int64(k.h)} })
        ELSE mode_pairs(skip(k.h).h, n - 1, m, hp) :
        k \in {parse_string(h)}, key \in {CStr(parse_string(h).out)} })

\* horiz and vert start as whatever the stack holds (junk), the other
\* locals as the code initializes them
parse_mode(h, junk, hp) ==
    Only({ mode_pairs(it.h, it.it.len,
                      [ horiz |-> [k \in DimKeys |-> junk],
                        vert |-> [k \in DimKeys |-> junk],
                        id |-> S64Minus1, best_color_mode |-> S64Minus1,
                        is_preferred |-> FALSE ],
                      hp) :
           it \in {iterator_begin(h, TRUE)} })

RECURSIVE mode_entries(_, _, _, _, _)
\* the foreach_in_array of enumerate_modes; modes collects what parse_mode
\* prints for each mode it accepts
mode_entries(h, n, modes, junk, hp) ==
    IF n = 0 THEN [h |-> h, ret |-> 0, modes |-> modes]
    ELSE Only({ IF r.ret # 0 THEN [h |-> r.h, ret |-> r.ret, modes |-> modes]
                ELSE mode_entries(r.h, n - 1, Append(modes, r.m), junk, hp) :
                r \in {parse_mode(h, junk, hp)} })

enumerate_modes(h, junk, hp) ==
    Only({ mode_entries(it.h, it.it.len, <<>>, junk, hp) :
           it \in {iterator_begin(h, FALSE)} })

(***************************************************************************)
(* parse_color_modes on a ColorModes array: each entry is a dictionary     *)
(* with a Score, an ID, both or neither, in either order, possibly with a  *)
(* key the parser does not know                                            *)
(***************************************************************************)
MaxEntries == 2

EntryScores == {-1, 0, 3, 7, 70000}
EntryIds == {-1, 1, 2}

\* has_score and has_id tell which keys the entry carries.  order "si":
\* Score then ID; "is": ID then Score; "sxi": an unknown Bool between them
ColorEntries ==
    { [has_score |-> TRUE, score |-> s, has_id |-> TRUE, id |-> i, order |-> "si"] :
        s \in EntryScores, i \in EntryIds }
    \cup { [has_score |-> FALSE, score |-> 0, has_id |-> TRUE, id |-> i, order |-> "si"] :
             i \in EntryIds }
    \cup { [has_score |-> TRUE, score |-> s, has_id |-> FALSE, id |-> 0, order |-> "si"] :
             s \in EntryScores }
    \cup { [has_score |-> FALSE, score |-> 0, has_id |-> FALSE, id |-> 0, order |-> "si"] }
    \cup { [has_score |-> TRUE, score |-> s, has_id |-> TRUE, id |-> i, order |-> o] :
             s \in {3, 7}, i \in {1, 2}, o \in {"is", "sxi"} }

\* a small integer as s64 limbs
S64Of(n) == IF n >= 0 THEN U64(n) ELSE <<U16 + n, U16 - 1, U16 - 1, U16 - 1>>

IntPair(key, n) == [key |-> key, type |-> OS_OTYPE_INT64, int |-> S64Of(n), bool |-> FALSE]

EntryPairs(e) ==
    LET s == IF e.has_score THEN <<IntPair(KeyScore, e.score)>> ELSE <<>>
        i == IF e.has_id THEN <<IntPair(KeyID, e.id)>> ELSE <<>>
        x == <<[key |-> <<88>>, type |-> OS_OTYPE_BOOL, int |-> U64(0), bool |-> TRUE]>>
    IN CASE e.order = "si" -> s \o i
         [] e.order = "is" -> i \o s
         [] e.order = "sxi" -> s \o x \o i

PutEntry(e, end) ==
    PutTag(Len(EntryPairs(e)), OS_OTYPE_DICTIONARY, end) \o PutPairs(EntryPairs(e))

RECURSIVE PutEntries(_)
PutEntries(es) ==
    IF es = <<>> THEN <<>>
    ELSE PutEntry(Head(es), Len(es) = 1) \o PutEntries(Tail(es))

PutColorModes(es) ==
    PutTag(Len(es), OS_OTYPE_ARRAY, TRUE) \o PutEntries(es)

InitColor ==
    /\ Probed
    /\ nr_mappings = <<0, 0>> /\ mappings = {}
    /\ \E es \in UNION { [1 .. n -> ColorEntries] : n \in 0 .. MaxEntries } :
          LET blob == <<OSSERIALIZE_HDR, 0, 0, 0>> \o PutColorModes(es)
              r == parse(blob, Len(blob))
          IN parser = [ blob |-> blob, h |-> r.h, op |-> "parse", ret |-> r.ret,
                        src |-> es, best_id |-> <<>> ]

DoParseColorModes ==
    /\ parser.op = "parse"
    /\ \E r \in {parse_color_modes(parser.h)} :
       parser' = [parser EXCEPT !.h = r.h, !.op = "parse_color_modes",
                                !.ret = r.ret, !.best_id = r.best_id]
    /\ UNCHANGED <<engine, step, inputs, owed, pending, codec, cpu>>

NextColor == DoParseColorModes

SpecColor == InitColor /\ [][NextColor]_vars

(***************************************************************************)
(* enumerate_modes on a mode table: an array of mode dictionaries, each    *)
(* with HorizontalAttributes, ColorModes and ID, in which one container    *)
(* tag may be damaged                                                      *)
(***************************************************************************)
MaxModes == 2

PutKey(key) == PutTag(Len(key), OS_OTYPE_STRING, FALSE) \o key \o PadTo4(Len(key))

PutInt64(v, end) == PutTag(64, OS_OTYPE_INT64, end) \o BytesOfS64(v)

\* the pieces of one mode, in the order they are written
ModePieces(id, end) ==
    << PutTag(3, OS_OTYPE_DICTIONARY, end) \o PutKey(KeyHorizontalAttributes),
       PutTag(1, OS_OTYPE_DICTIONARY, FALSE) \o PutKey(KeyActive)
           \o PutInt64(U64(1920), TRUE) \o PutKey(KeyColorModes),
       PutColorModes(<<[has_score |-> TRUE, score |-> 7, has_id |-> TRUE, id |-> 1,
                        order |-> "si"]>>)
           \o PutKey(KeyID) \o PutInt64(U64(id), TRUE) >>

PutMode(id, end) ==
    ModePieces(id, end)[1] \o ModePieces(id, end)[2] \o ModePieces(id, end)[3]

RECURSIVE PutModes(_, _)
PutModes(i, n) ==
    IF i > n THEN <<>> ELSE PutMode(i, i = n) \o PutModes(i + 1, n)

ModeTable(n) ==
    <<OSSERIALIZE_HDR, 0, 0, 0>> \o PutTag(n, OS_OTYPE_ARRAY, TRUE) \o PutModes(1, n)

\* the offset of a container tag in ModeTable: the top-level Array, or of
\* mode i its Dictionary, its attributes Dictionary or its ColorModes Array
TagOffset(site, i) ==
    LET start == 8 + (i - 1) * Len(PutMode(1, FALSE))
        ps == ModePieces(1, FALSE)
    IN CASE site = "top" -> 4
         [] site = "mode" -> start
         [] site = "attrs" -> start + Len(ps[1])
         [] site = "colors" -> start + Len(ps[1]) + Len(ps[2])

\* the blob ends before the tag or inside it, a padding bit of the tag is
\* set, or its type is another one
Damage(blob, off, kind) ==
    CASE kind = "cut" -> SubSeq(blob, 1, off)
      [] kind = "cut_inside" -> SubSeq(blob, 1, off + 2)
      [] kind = "reserved" -> [blob EXCEPT ![off + 4] = @ + 32]
      [] kind = "swapped" ->
            [blob EXCEPT ![off + 4] = IF @ % 32 = OS_OTYPE_DICTIONARY
                                      THEN @ - OS_OTYPE_DICTIONARY + OS_OTYPE_ARRAY
                                      ELSE @ - OS_OTYPE_ARRAY + OS_OTYPE_DICTIONARY]
      [] kind = "string" -> [blob EXCEPT ![off + 4] = @ - (@ % 32) + OS_OTYPE_STRING]
      [] OTHER -> blob

Damages(n) ==
    { [site |-> "top", mode |-> 1, kind |-> k] :
        k \in {"none", "cut", "cut_inside", "reserved", "swapped", "string"} }
    \cup { [site |-> s, mode |-> i, kind |-> k] :
             s \in {"mode", "attrs", "colors"}, i \in 1 .. n,
             k \in {"cut", "cut_inside", "reserved", "swapped", "string"} }

\* junk is what the uninitialized locals of parse_mode hold, hp the handle
\* pointer as an int
InitModes ==
    /\ Probed
    /\ nr_mappings = <<0, 0>> /\ mappings = {}
    /\ \E n \in 1 .. MaxModes :
       \E d \in Damages(n), junk \in {U64(0), S64Minus1}, hp \in {0, 4096} :
          LET blob == Damage(ModeTable(n), TagOffset(d.site, d.mode), d.kind)
              r == parse(blob, Len(blob))
          IN parser = [ blob |-> blob, h |-> r.h, op |-> "parse", ret |-> r.ret,
                        n |-> n, dmg |-> d, junk |-> junk, hp |-> hp, modes |-> <<>> ]

DoEnumerateModes ==
    /\ parser.op = "parse" /\ parser.ret = 0
    /\ \E r \in {enumerate_modes(parser.h, parser.junk, parser.hp)} :
       parser' = [parser EXCEPT !.h = r.h, !.op = "enumerate_modes",
                                !.ret = r.ret, !.modes = r.modes]
    /\ UNCHANGED <<engine, step, inputs, owed, pending, codec, cpu>>

NextModes == DoEnumerateModes

SpecModes == InitModes /\ [][NextModes]_vars

(***************************************************************************)
(* skip and the typed parse on one serialized value: a leaf, a container   *)
(* of leaves, or a container that holds such a container.  The value       *)
(* follows the magic word; it is complete, or its last four bytes are      *)
(* missing                                                                 *)
(***************************************************************************)
MaxKids == 2

PutBlob(bytes) == PutTag(Len(bytes), OS_OTYPE_BLOB, FALSE) \o bytes \o PadTo4(Len(bytes))

\* Int64, Strings of 0, 1 and 5 bytes, Blobs of 2 and 4 bytes, both Bools
Leaves ==
    { PutInt64(U64(5), FALSE),
      PutKey(<<>>), PutKey(<<88>>), PutKey(<<72, 101, 105, 103, 104>>),
      PutBlob(<<7, 0>>), PutBlob(<<1, 2, 3, 4>>),
      PutTag(0, OS_OTYPE_BOOL, FALSE), PutTag(1, OS_OTYPE_BOOL, FALSE) }

\* the keys of a Dictionary: one byte and four bytes in turn, so that the
\* value follows padding or follows none
KeyAt(i) == IF i % 2 = 1 THEN <<88>> ELSE <<75, 101, 121, 115>>

\* the last element of a collection carries bit 31 in its tag
SetEnd(v) == [v EXCEPT ![4] = @ + 128]

RECURSIVE JoinValues(_)
JoinValues(vs) ==
    IF vs = <<>> THEN <<>>
    ELSE (IF Len(vs) = 1 THEN SetEnd(Head(vs)) ELSE Head(vs)) \o JoinValues(Tail(vs))

PutArray(vs) == PutTag(Len(vs), OS_OTYPE_ARRAY, FALSE) \o JoinValues(vs)

\* prs: a sequence of <<key, serialized value>>
PutPairsOf(prs) ==
    PutTag(Len(prs), OS_OTYPE_DICTIONARY, FALSE)
    \o JoinValues([i \in 1 .. Len(prs) |-> PutKey(prs[i][1]) \o prs[i][2]])

PutDict(vs) == PutPairsOf([i \in 1 .. Len(vs) |-> <<KeyAt(i), vs[i]>>])

Containers(S) ==
    { PutArray(vs) : vs \in UNION { [1 .. n -> S] : n \in 0 .. MaxKids } }
    \cup { PutDict(vs) : vs \in UNION { [1 .. n -> S] : n \in 0 .. MaxKids } }

\* a container inside a container, alone or beside a String of one byte
Nested(S) ==
    UNION { { PutArray(<<c>>), PutArray(<<PutKey(<<88>>), c>>),
              PutArray(<<c, PutKey(<<88>>)>>), PutDict(<<c>>),
              PutDict(<<c, PutKey(<<88>>)>>) } :
            c \in S }

Values == Leaves \cup Containers(Leaves) \cup Nested(Containers(Leaves))

\* what the load through the error pointer in peek_type can do
UbLoads ==
    { [fault |-> TRUE, type |-> 0], [fault |-> FALSE, type |-> 0],
      [fault |-> FALSE, type |-> OS_OTYPE_BOOL] }

NotRun(h) == [done |-> FALSE, h |-> h, ret |-> 0, fault |-> FALSE]

\* wf: the value is whole.  skipped and typed hold what skip and the typed
\* parse made of the handle that parse returned
InitValue ==
    /\ Probed
    /\ nr_mappings = <<0, 0>> /\ mappings = {}
    /\ \E v \in Values, shape \in {"whole", "followed", "cut"} :
       \E blob \in { <<OSSERIALIZE_HDR, 0, 0, 0>> \o
                      (CASE shape = "whole" -> SetEnd(v)
                         [] shape = "followed" -> v \o PutTag(1, OS_OTYPE_BOOL, TRUE)
                         [] shape = "cut" -> SubSeq(SetEnd(v), 1, Len(v) - 4)) } :
       \E r \in { parse(blob, Len(blob)) } :
          parser = [ blob |-> blob, h |-> r.h, op |-> "parse", ret |-> r.ret,
                     wf |-> shape # "cut",
                     skipped |-> NotRun(r.h), typed |-> NotRun(r.h) ]

DoSkipValue ==
    /\ ~parser.skipped.done
    /\ \E r \in { skip(parser.h) } :
          parser' = [parser EXCEPT !.op = "skip",
                       !.skipped = [done |-> TRUE, h |-> r.h, ret |-> r.ret,
                                    fault |-> FALSE]]
    /\ UNCHANGED <<engine, step, inputs, owed, pending, codec, cpu>>

DoPrintValue ==
    /\ ~parser.typed.done
    /\ \E ub \in UbLoads :
       \E r \in { print_value(parser.h, ub) } :
          parser' = [parser EXCEPT !.op = "print_value",
                       !.typed = [done |-> TRUE, h |-> r.h, ret |-> r.ret,
                                  fault |-> r.fault]]
    /\ UNCHANGED <<engine, step, inputs, owed, pending, codec, cpu>>

NextValue == DoSkipValue \/ DoPrintValue

SpecValue == InitValue /\ [][NextValue]_vars

(***************************************************************************)
(* parse_mode on a mode dictionary, and on the same dictionary with one    *)
(* more pair: a key parse_mode, parse_dimension and parse_color_modes do   *)
(* not compare with, and a whole value.  The pair goes into the mode, into *)
(* one of its attribute dictionaries or into one of its color modes        *)
(***************************************************************************)
\* "IDs", "Scor", the empty key, "X" and "X" with the terminating zero
\* counted in the size
UnknownKeys ==
    { <<73, 68, 115>>, <<83, 99, 111, 114>>, <<>>, <<88>>, <<88, 0>> }

\* the values of the added pair: every leaf, small containers, and a
\* Dictionary that has an ID of its own
UnknownValues ==
    Leaves \cup Containers({PutKey(<<88>>), PutInt64(U64(5), FALSE)})
    \cup { PutPairsOf(<<<<KeyID, PutInt64(U64(9), FALSE)>>>>) }

\* where the pair is added, and the pairs there are at each place
Sites == {"mode", "horiz", "vert", "color1", "color2"}

SitePairs(site) ==
    CASE site = "horiz" -> << <<KeyActive, PutInt64(U64(1920), FALSE)>>,
                              <<KeyTotal, PutInt64(U64(2200), FALSE)>> >>
      [] site = "vert" -> << <<KeySyncRate, PutInt64(<<0, 60, 0, 0>>, FALSE)>> >>
      [] site = "color1" -> << <<KeyScore, PutInt64(U64(3), FALSE)>>,
                               <<KeyID, PutInt64(U64(2), FALSE)>> >>
      [] site = "color2" -> << <<KeyID, PutInt64(U64(1), FALSE)>>,
                               <<KeyScore, PutInt64(U64(7), FALSE)>> >>
      [] OTHER -> <<>>

Insert(prs, at, pr) == SubSeq(prs, 1, at) \o <<pr>> \o SubSeq(prs, at + 1, Len(prs))

\* the pairs of site s when add.site = s gets add.pair at add.at
PairsAt(s, add) ==
    IF add.site = s THEN Insert(SitePairs(s), add.at, add.pair) ELSE SitePairs(s)

ModePairs(add) ==
    << <<KeyHorizontalAttributes, PutPairsOf(PairsAt("horiz", add))>>,
       <<KeyColorModes, PutArray(<<PutPairsOf(PairsAt("color1", add)),
                                   PutPairsOf(PairsAt("color2", add))>>)>>,
       <<KeyIsPreferred, PutTag(1, OS_OTYPE_BOOL, FALSE)>>,
       <<KeyVerticalAttributes, PutPairsOf(PairsAt("vert", add))>>,
       <<KeyID, PutInt64(U64(4), FALSE)>> >>

ModeBlob(add) ==
    <<OSSERIALIZE_HDR, 0, 0, 0>>
    \o SetEnd(PutPairsOf(IF add.site = "mode"
                         THEN Insert(ModePairs(add), add.at, add.pair)
                         ELSE ModePairs(add)))

NoAdd == [site |-> "none", at |-> 0, pair |-> <<>>]

Adds ==
    { [site |-> s, at |-> at, pair |-> <<k, v>>] :
        s \in Sites, at \in 0 .. 5, k \in UnknownKeys, v \in UnknownValues }

NotParsed == [done |-> FALSE, ret |-> 0, m |-> <<>>]

\* plain: parse_mode on the mode as it is; added: on the mode with the pair
InitUnknown ==
    /\ Probed
    /\ nr_mappings = <<0, 0>> /\ mappings = {}
    /\ \E add \in Adds, junk \in {U64(0), S64Minus1} :
          /\ add.at <= (IF add.site = "mode" THEN 5 ELSE Len(SitePairs(add.site)))
          /\ \E blob \in { ModeBlob(add) } :
             \E r \in { parse(blob, Len(blob)) } :
                parser = [ blob |-> blob, h |-> r.h, op |-> "parse", ret |-> r.ret,
                           add |-> add, junk |-> junk,
                           plain |-> NotParsed, added |-> NotParsed ]

DoParseModePlain ==
    /\ ~parser.plain.done
    /\ \E b \in { ModeBlob(NoAdd) } :
       \E r \in { parse_mode(parse(b, Len(b)).h, parser.junk, PAGE_SIZE) } :
          parser' = [parser EXCEPT !.op = "parse_mode",
                       !.plain = [done |-> TRUE, ret |-> r.ret, m |-> r.m]]
    /\ UNCHANGED <<engine, step, inputs, owed, pending, codec, cpu>>

DoParseModeAdded ==
    /\ ~parser.added.done
    /\ \E r \in { parse_mode(parser.h, parser.junk, PAGE_SIZE) } :
          parser' = [parser EXCEPT !.op = "parse_mode", !.h = r.h,
                       !.added = [done |-> TRUE, ret |-> r.ret, m |-> r.m]]
    /\ UNCHANGED <<engine, step, inputs, owed, pending, codec, cpu>>

NextUnknown == DoParseModePlain \/ DoParseModeAdded

SpecUnknown == InitUnknown /\ [][NextUnknown]_vars

(***************************************************************************)
(* Two threads inside the engine.  dcp_got_msg runs on the thread of the   *)
(* receive path, dcp_swap on the thread of the atomic commit; dcp.c takes  *)
(* no lock, so a step of one can fall between any two steps of the other.  *)
(* Every load and store of the command channel is one step.                *)
(***************************************************************************)
Threads == {"rx", "drm"}

InitRace ==
    /\ ch_cmd = BootedCmd /\ ch_oobcmd = EmptyCallChannel
    /\ ch_cb = EmptyCbChannel /\ ch_oobcb = EmptyCbChannel
    /\ ch_async = EmptyCbChannel
    /\ active = TRUE /\ oops = FALSE
    /\ nr_mappings = <<0, 0>> /\ mappings = {}
    /\ apple = [NoDisplay EXCEPT !.link = "ready"]
    /\ sent = <<>> /\ wrote = {} /\ ran = <<>> /\ vblank = 0 /\ warn = 0
    /\ oob = {} /\ memops = <<>> /\ reply = <<>> /\ drm = <<>>
    /\ last = [op |-> "probe", message |-> <<0, 0, 0, 0>>, p |-> NoPacket,
               pre |-> [c \in Channels |-> 0], was_active |-> TRUE]
    /\ inputs = 0
    /\ owed = [c \in Contexts |-> 0]
    /\ pending = [c \in CallChannels |-> <<>>]
    /\ codec = CodecOff
    /\ parser = ParserOff
    /\ cpu = CpuOff

\* what a step of a thread leaves alone besides the fields it names
RaceFrame ==
    UNCHANGED <<ch_oobcmd, ch_cb, ch_oobcb, ch_async, nr_mappings, mappings,
                apple, oops, ran, vblank, oob, memops, reply, drm, last, owed,
                pending, codec, parser>>

\* thread t calls dcp_push
Enter(t, c) == [cpu EXCEPT ![t] = [Idle EXCEPT !.pc = "push_load", !.call = c]]

\* apple_crtc_atomic_flush -> dcp_swap -> dcp_push(swap_start)
DrmSwap ==
    /\ cpu.drm.pc = "idle" /\ inputs < MaxInputs
    /\ cpu' = Enter("drm", [NoCall EXCEPT !.method = "swap_start", !.in_len = 24,
                                           !.out_len = 24, !.cb = "dcp_swap_started",
                                           !.cookie = "req"])
    /\ inputs' = inputs + 1
    /\ warn' = warn + (IF active THEN 0 ELSE 1)
    /\ UNCHANGED <<ch_cmd, active, sent, wrote>>
    /\ RaceFrame

\* dcp_got_msg, case DCPEP_TYPE_INITIALIZED -> dcp_push(start_signal)
RxInitialized ==
    /\ cpu.rx.pc = "idle" /\ inputs < MaxInputs
    /\ cpu' = Enter("rx", [NoCall EXCEPT !.method = "start_signal", !.out_len = 4,
                                          !.cb = "dcp_started"])
    /\ inputs' = inputs + 1
    /\ UNCHANGED <<ch_cmd, active, sent, wrote, warn>>
    /\ RaceFrame

\* the newest call whose word has been sent
NewestSent ==
    LET is == { i \in 1 .. Len(cpu.calls) : cpu.calls[i].sent } IN
    IF is = {} THEN 0 ELSE CHOOSE i \in is : \A j \in is : j <= i

Without(seq, i) == [k \in 1 .. (Len(seq) - 1) |-> IF k < i THEN seq[k] ELSE seq[k + 1]]

\* dcp_got_msg, case DCPEP_TYPE_MESSAGE with the ack bit on context Command:
\* the coprocessor answers the newest call it was sent; dcpep_handle_ack
RxAck ==
    /\ cpu.rx.pc = "idle" /\ NewestSent # 0
    /\ cpu' = [cpu EXCEPT !.rx = [Idle EXCEPT !.pc = "pop_load"],
                          !.calls = Without(@, NewestSent)]
    /\ UNCHANGED <<ch_cmd, active, sent, wrote, warn, inputs>>
    /\ RaceFrame

\* dcp_push_depth, the load of ret = (*depth)++
PushLoad(t) ==
    /\ cpu[t].pc = "push_load"
    /\ cpu' = [cpu EXCEPT ![t].depth = ch_cmd.depth, ![t].pc = "push_store"]
    /\ UNCHANGED <<ch_cmd, active, sent, wrote, warn, inputs>>
    /\ RaceFrame

\* dcp_push_depth, the store of ret = (*depth)++ and the WARN_ON
PushStore(t) ==
    /\ cpu[t].pc = "push_store"
    /\ ch_cmd' = [ch_cmd EXCEPT !.depth = (cpu[t].depth + 1) % U8]
    /\ warn' = warn + (IF cpu[t].depth >= DCP_MAX_CALL_DEPTH THEN 1 ELSE 0)
    /\ cpu' = [cpu EXCEPT ![t].pc = "push_start",
                          !.calls = Append(@, [by |-> t, index |-> cpu[t].depth,
                                               addr |-> -1, sent |-> FALSE])]
    /\ UNCHANGED <<active, sent, wrote, inputs>>
    /\ RaceFrame

\* offset = dcp_packet_start(ch, depth)
PushStart(t) ==
    /\ cpu[t].pc = "push_start"
    /\ cpu[t].depth \in 0 .. DCP_MAX_CALL_DEPTH
    /\ cpu' = [cpu EXCEPT ![t].pc = "push_write",
                          ![t].offset = dcp_packet_start([ch_cmd |-> ch_cmd], "ch_cmd",
                                                         cpu[t].depth)]
    /\ UNCHANGED <<ch_cmd, active, sent, wrote, warn, inputs>>
    /\ RaceFrame

\* the call of thread t in cpu.calls that has no address yet
Mine(t) == CHOOSE i \in 1 .. Len(cpu.calls) :
               cpu.calls[i].by = t /\ cpu.calls[i].addr = -1

\* the two memcpy of dcp_push
PushWrite(t) ==
    LET c == cpu[t].call
        out == dcp_tx_offset(c.context) + cpu[t].offset
    IN
    /\ cpu[t].pc = "push_write"
    /\ wrote' = Write([wrote |-> wrote], out, HEADER_SIZE + c.in_len, "dcp_push",
                      Reverse4(dcp_methods[c.method]), c.in_len, c.out_len,
                      c.data).wrote
    /\ cpu' = [cpu EXCEPT ![t].pc = "push_frame", !.calls[Mine(t)].addr = out]
    /\ UNCHANGED <<ch_cmd, active, sent, warn, inputs>>
    /\ RaceFrame

\* the four frame stores of dcp_push
PushFrame(t) ==
    LET c == cpu[t].call
        out == dcp_tx_offset(c.context) + cpu[t].offset
    IN
    /\ cpu[t].pc = "push_frame"
    /\ cpu[t].depth \in Slots
    /\ ch_cmd' = StoreFrame([ch_cmd |-> ch_cmd], "ch_cmd", cpu[t].depth, c.cb,
                            c.cookie, out + HEADER_SIZE + c.in_len,
                            cpu[t].offset
                            + ALIGN(PacketLen(c.in_len, c.out_len),
                                    DCP_PACKET_ALIGNMENT)).ch_cmd
    /\ cpu' = [cpu EXCEPT ![t].pc = "push_send"]
    /\ UNCHANGED <<active, sent, wrote, warn, inputs>>
    /\ RaceFrame

\* the call of thread t in cpu.calls whose word is not sent yet
Unsent(t) == CHOOSE i \in 1 .. Len(cpu.calls) :
                 cpu.calls[i].by = t /\ ~cpu.calls[i].sent

\* dcpep_send at the end of dcp_push; the entry point returns
PushSend(t) ==
    LET c == cpu[t].call IN
    /\ cpu[t].pc = "push_send"
    /\ sent' = Append(sent, dcpep_msg(c.context,
                                      ToU32(PacketLen(c.in_len, c.out_len)),
                                      cpu[t].offset, FALSE))
    /\ cpu' = [cpu EXCEPT ![t] = Idle, !.calls[Unsent(t)].sent = TRUE]
    /\ UNCHANGED <<ch_cmd, active, wrote, warn, inputs>>
    /\ RaceFrame

\* dcp_pop_depth in dcpep_handle_ack, the load of --(*depth)
PopLoad ==
    /\ cpu.rx.pc = "pop_load"
    /\ cpu' = [cpu EXCEPT !.rx.depth = ch_cmd.depth, !.rx.pc = "pop_store"]
    /\ UNCHANGED <<ch_cmd, active, sent, wrote, warn, inputs>>
    /\ RaceFrame

\* dcp_pop_depth, the store of --(*depth) and the WARN_ON
PopStore ==
    /\ cpu.rx.pc = "pop_store"
    /\ ch_cmd' = [ch_cmd EXCEPT !.depth = (cpu.rx.depth + U8 - 1) % U8]
    /\ warn' = warn + (IF cpu.rx.depth = 0 THEN 1 ELSE 0)
    /\ cpu' = [cpu EXCEPT !.rx.depth = (cpu.rx.depth + U8 - 1) % U8,
                          !.rx.pc = "ack_cb"]
    /\ UNCHANGED <<active, sent, wrote, inputs>>
    /\ RaceFrame

\* cb = ch->callbacks[ch->depth], with the depth read again from the channel;
\* if (cb) cb(dcp, data, cookie), for a reply whose first word is zero.  A continuation that pushes goes on in dcp_push.
AckCb ==
    LET cb == IF ch_cmd.depth \in Slots THEN ch_cmd.callbacks[ch_cmd.depth] ELSE NULL
        next == CASE cb = "dcp_swap_started" ->
                       [NoCall EXCEPT !.method = "swap_submit", !.in_len = 2208,
                                      !.out_len = 8, !.cb = "dcp_swapped"]
                  [] cb = "dcp_started" ->
                       [NoCall EXCEPT !.method = "set_display_device", !.in_len = 4,
                                      !.out_len = 4, !.data = 2, !.cb = "dcp_set_4k"]
                  [] cb = "dcp_set_4k" ->
                       [NoCall EXCEPT !.method = "set_digital_out_mode", !.in_len = 8,
                                      !.out_len = 4, !.cb = "modeset_done"]
                  [] OTHER -> NoCall
    IN
    /\ cpu.rx.pc = "ack_cb"
    /\ ch_cmd.depth \in Slots
    /\ cb \in {NULL, "dcp_swap_started", "dcp_swapped", "dcp_started", "dcp_set_4k",
               "modeset_done"}
    /\ cpu' = IF cb \in {"dcp_swap_started", "dcp_started", "dcp_set_4k"}
              THEN Enter("rx", next)
              ELSE [cpu EXCEPT !.rx = Idle]
    /\ active' = (active \/ cb = "modeset_done")
    /\ UNCHANGED <<ch_cmd, sent, wrote, warn, inputs>>
    /\ RaceFrame

Push == \E t \in Threads :
            PushLoad(t) \/ PushStore(t) \/ PushStart(t) \/ PushWrite(t)
            \/ PushFrame(t) \/ PushSend(t)

NextRace == DrmSwap \/ RxInitialized \/ RxAck \/ Push \/ PopLoad \/ PopStore \/ AckCb

SpecRace == InitRace /\ [][NextRace]_vars

(***************************************************************************)
(* dcp_platform_probe from apple_rtkit_start_ep on.  The endpoint is live  *)
(* from then, so the receive path can run dcp_got_msg between any two      *)
(* steps of the probe; dcp->shmem is NULL until dma_alloc_coherent.        *)
(***************************************************************************)
ShmemIovas == {<<0, 0, 0, 0>>, <<16384, 0, 0, 0>>, <<0, 32768, 1, 0>>}

InitProbe ==
    /\ ch_cmd = EmptyCallChannel /\ ch_oobcmd = EmptyCallChannel
    /\ ch_cb = EmptyCbChannel /\ ch_oobcb = EmptyCbChannel
    /\ ch_async = EmptyCbChannel
    /\ active = FALSE /\ oops = FALSE
    /\ nr_mappings = <<0, 0>> /\ mappings = {}
    /\ apple = NoDisplay
    /\ sent = <<>> /\ wrote = {} /\ ran = <<>> /\ vblank = 0 /\ warn = 0
    /\ oob = {} /\ memops = <<>> /\ reply = <<>> /\ drm = <<>>
    /\ last = [op |-> "probe", message |-> <<0, 0, 0, 0>>, p |-> NoPacket,
               pre |-> [c \in Channels |-> 0], was_active |-> FALSE]
    /\ inputs = 0
    /\ owed = [c \in Contexts |-> 0]
    /\ pending = [c \in CallChannels |-> <<>>]
    /\ codec = CodecOff
    /\ parser = ParserOff
    /\ cpu = [CpuOff EXCEPT !.probe = "start_ep", !.shmem = NULL]

ProbeFrame == UNCHANGED <<engine, step, inputs, owed, pending, codec, parser>>

\* apple_rtkit_start_ep(dcp->rtk, DCP_ENDPOINT)
ProbeStartEp ==
    /\ cpu.probe = "start_ep"
    /\ cpu' = [cpu EXCEPT !.probe = "alloc"]
    /\ ProbeFrame

\* dcp->shmem = dma_alloc_coherent(..., &shmem_iova, ...), result not tested
ProbeAlloc ==
    /\ cpu.probe = "alloc"
    /\ \E ok \in BOOLEAN, a \in ShmemIovas :
          cpu' = [cpu EXCEPT !.probe = "send",
                             !.shmem = IF ok THEN "set" ELSE NULL,
                             !.iova = a]
    /\ ProbeFrame

\* dcpep_send(dcp, dcpep_set_shmem(shmem_iova)); the probe returns
ProbeSend ==
    /\ cpu.probe = "send"
    /\ cpu' = [cpu EXCEPT !.probe = "done",
                          !.log = Append(@, [kind |-> "word",
                                             w |-> dcpep_set_shmem(cpu.iova)])]
    /\ ProbeFrame

\* what a step adds to the log: the packet dcp_push wrote, then the words sent
Logged(s) ==
    (IF \E w \in s.wrote : w.by = "dcp_push"
     THEN <<[kind |-> "write", w |-> <<0, 0, 0, 0>>]>> ELSE <<>>)
    \o [i \in 1 .. Len(s.sent) |-> [kind |-> "word", w |-> s.sent[i]]]

\* dcp_got_msg on the receive thread while the probe is not through.  With
\* dcp->shmem NULL the first access to the shared buffer (the memcpy of
\* dcp_push, the tag of a callback packet, the header read for a
\* continuation) is a NULL dereference.
ProbeRecv ==
    /\ ~oops
    /\ cpu.probe \in {"alloc", "send"}
    /\ \E i \in { <<m, NoPacket>> : m \in PlainWords } \cup AckInputs \cup CbInputs,
          ub \in UbChoices :
          LET message == i[1]
              s0 == dcp_got_msg(Cur(ub), message, i[2])
              touches ==
                  \/ msg_type(message) = DCPEP_TYPE_INITIALIZED
                  \/ /\ msg_type(message) = DCPEP_TYPE_MESSAGE
                     /\ dcp_channel_offset(msg_ctx(message)) >= 0
                     /\ (msg_ack(message) => s0.ran # <<>>)
              s == IF cpu.shmem = NULL /\ touches
                   THEN Oops(Cur(ub), "null_shmem") ELSE s0
          IN /\ CommitEngine(s, "recv", message, i[2])
             /\ cpu' = [cpu EXCEPT !.log = @ \o Logged(s)]
    /\ UNCHANGED <<codec, parser>>

NextProbe == ProbeStartEp \/ ProbeAlloc \/ ProbeSend \/ ProbeRecv

SpecProbe == InitProbe /\ [][NextProbe]_vars

(***************************************************************************)
(* skip, call by call, with the cursor at the width the code gives it:     *)
(* struct dcp_parse_ctx holds pos and len as u32, here <<low, high>>       *)
(* halves.  parser.stack holds the loops of the calls that are still       *)
(* active, the entry call below them as a loop of one iteration; at is the *)
(* place of the tag a call started with.                                   *)
(***************************************************************************)
MaxTagWords == 3

\* the largest value of the 24-bit field size
MaxTagSize == 16777215

OsTag(size, type, padding) == [size |-> size, type |-> type, padding |-> padding]

DepthWords ==
    { OsTag(1, OS_OTYPE_ARRAY, 0), OsTag(2, OS_OTYPE_ARRAY, 0),
      OsTag(1, OS_OTYPE_DICTIONARY, 0), OsTag(0, OS_OTYPE_INT64, 0),
      OsTag(4, OS_OTYPE_STRING, 0), OsTag(1, OS_OTYPE_BOOL, 0),
      OsTag(0, 0, 0), OsTag(1, OS_OTYPE_ARRAY, 1) }

RECURSIVE WordRows(_)
WordRows(n) ==
    IF n = 0 THEN {<<>>}
    ELSE WordRows(n - 1)
         \cup { Append(r, w) : r \in { x \in WordRows(n - 1) : Len(x) = n - 1 },
                               w \in DepthWords }

\* a short blob is the magic and up to MaxTagWords words; the strided blob
\* is 2^32 - 1 bytes long and holds an Array of 257 elements at 4 and 256
\* Strings, one every 2^24 bytes from 8 on, the last of them 4 bytes
\* shorter than the others; every other word of it is zero
DepthBlobs ==
    { [kind |-> "short", words |-> r, len |-> ToU32(4 + 4 * Len(r))] :
        r \in WordRows(MaxTagWords) }
    \cup { [kind |-> "strided", words |-> <<>>, len |-> <<U16 - 1, U16 - 1>>] }

\* the word at the aligned place at
WordAt(blob, at) ==
    IF blob.kind = "short"
    THEN IF at[2] = 0 /\ at[1] >= 4 /\ (at[1] - 4) \div 4 < Len(blob.words)
         THEN blob.words[(at[1] - 4) \div 4 + 1]
         ELSE OsTag(0, 0, 0)
    ELSE CASE at = <<4, 0>> -> OsTag(257, OS_OTYPE_ARRAY, 0)
           [] at[1] = 8 /\ at[2] % 256 = 0 /\ at[2] < 255 * 256 ->
                  OsTag(MaxTagSize - 3, OS_OTYPE_STRING, 0)
           [] at = <<8, 255 * 256>> -> OsTag(MaxTagSize - 7, OS_OTYPE_STRING, 0)
           [] OTHER -> OsTag(0, 0, 0)

\* pos += n on a u32
Add32(a, n) == <<(a[1] + n) % U16, (a[2] + (a[1] + n) \div U16) % U16>>

\* round_up(pos, 4) on a u32: ((pos - 1) | 3) + 1
round_up_u32(a) == IF a[1] % 4 = 0 THEN a ELSE Add32(a, 4 - (a[1] % 4))

\* pos + count > len, the sum taken as a size_t
PastEnd(a, count, len) ==
    \/ a[2] + (a[1] + count) \div U16 > len[2]
    \/ a[2] + (a[1] + count) \div U16 = len[2] /\ (a[1] + count) % U16 > len[1]

parse_bytes_u32(blob, pos, count) ==
    IF PastEnd(pos, count, blob.len)
    THEN [pos |-> pos, err |-> EINVAL_NEG, ptr |-> pos]
    ELSE [pos |-> Add32(pos, count), err |-> 0, ptr |-> pos]

\* dry: the cursor had no four bytes left
parse_tag_u32(blob, pos) ==
    Only({ IF b.err # 0
           THEN [pos |-> b.pos, err |-> b.err, tag |-> OsTag(0, 0, 0), at |-> b.ptr,
                 dry |-> TRUE]
           ELSE IF WordAt(blob, b.ptr).padding # 0
           THEN [pos |-> b.pos, err |-> EINVAL_NEG, tag |-> OsTag(0, 0, 0),
                 at |-> b.ptr, dry |-> FALSE]
           ELSE [pos |-> b.pos, err |-> 0, tag |-> WordAt(blob, b.ptr), at |-> b.ptr,
                 dry |-> FALSE] :
           b \in {parse_bytes_u32(blob, round_up_u32(pos), 4)} })

\* the loops that have run out return to their callers
RECURSIVE Unwind(_)
Unwind(stack) ==
    IF stack # <<>> /\ stack[Len(stack)].n = 0
    THEN Unwind(SubSeq(stack, 1, Len(stack) - 1))
    ELSE stack

\* the call of skip is over, or stands in a loop, once its tag is handled
Called(p, pos, ret, stack, pushed, dry) ==
    [p EXCEPT !.op = IF Unwind(stack) = <<>> THEN "returned" ELSE "call",
              !.pos = pos, !.ret = OrRet(@, ret), !.stack = Unwind(stack),
              !.depth = Len(p.stack) - 1, !.pushed = pushed,
              !.was_dry = p.dry, !.dry = p.dry \/ dry]

\* a container whose tag is the tag an active call started with: the call
\* repeats its caller and the recursion has no end
Reentered(p, at) == \E i \in 1 .. Len(p.stack) : p.stack[i].at = at

\* the loop of a Dictionary or Array of n calls
Loop(p, t, n, stack) ==
    IF Reentered(p, t.at)
    THEN [p EXCEPT !.op = "diverged", !.pos = t.pos, !.stack = stack,
                   !.depth = Len(p.stack) - 1, !.pushed = TRUE, !.was_dry = p.dry]
    ELSE Called(p, t.pos, 0, Append(stack, [n |-> n, at |-> t.at]), n > 0, FALSE)

\* one call of skip, up to its return or to the first call of its loop
skip_call(p) ==
    Only({ IF t.err # 0 THEN Called(p, t.pos, t.err, st, FALSE, t.dry)
           ELSE CASE t.tag.type = OS_OTYPE_DICTIONARY -> Loop(p, t, 2 * t.tag.size, st)
                  [] t.tag.type = OS_OTYPE_ARRAY -> Loop(p, t, t.tag.size, st)
                  [] t.tag.type = OS_OTYPE_INT64 ->
                       Called(p, Add32(t.pos, 8), 0, st, FALSE, FALSE)
                  [] t.tag.type \in {OS_OTYPE_STRING, OS_OTYPE_BLOB} ->
                       Called(p, Add32(t.pos, t.tag.size), 0, st, FALSE, FALSE)
                  [] t.tag.type = OS_OTYPE_BOOL -> Called(p, t.pos, 0, st, FALSE, FALSE)
                  [] OTHER -> Called(p, t.pos, EINVAL_NEG, st, FALSE, FALSE) :
           t \in {parse_tag_u32(p.blob, p.pos)},
           st \in {[p.stack EXCEPT ![Len(p.stack)].n = @ - 1]} })

\* skip is entered with the handle as parse leaves it, behind the magic
InitDepth ==
    /\ Probed
    /\ nr_mappings = <<0, 0>> /\ mappings = {}
    /\ \E blob \in DepthBlobs :
          parser = [ op |-> "call", blob |-> blob, pos |-> <<4, 0>>, ret |-> 0,
                     stack |-> << [n |-> 1, at |-> <<0, 0>>] >>,
                     depth |-> 0, pushed |-> FALSE, was_dry |-> FALSE,
                     dry |-> FALSE ]

SkipCall ==
    /\ parser.op = "call"
    /\ parser' = skip_call(parser)
    /\ UNCHANGED <<engine, step, inputs, owed, pending, codec, cpu>>

NextDepth == SkipCall

SpecDepth == InitDepth /\ [][NextDepth]_vars

(***************************************************************************)
(* The receive path with a record of what went over the mailbox: cpu.log   *)
(* holds, oldest first, the callbacks received, the calls pushed and the   *)
(* acks sent since the probe                                               *)
(***************************************************************************)
\* what a step adds to the log: the callback it received, the tag of the
\* packet dcp_push wrote, the acks it sent (by tells whether boot_done ran)
Traffic(s, message, p) ==
    (IF msg_type(message) = DCPEP_TYPE_MESSAGE /\ ~msg_ack(message)
     THEN <<[kind |-> "callback", ctx |-> msg_ctx(message), tag |-> p.tag,
             by |-> "dcp"]>>
     ELSE <<>>)
    \o (IF \E i \in 1 .. Len(s.sent) : ~msg_ack(s.sent[i])
        THEN <<[kind |-> "call", ctx |-> DCP_CONTEXT_CMD,
                tag |-> (CHOOSE w \in s.wrote : w.by = "dcp_push").tag,
                by |-> IF s.ran = <<>> THEN "handler" ELSE s.ran[Len(s.ran)].name]>>
        ELSE <<>>)
    \o (IF \E i \in 1 .. Len(s.sent) : msg_ack(s.sent[i])
        THEN <<[kind |-> "ack",
                ctx |-> msg_ctx(s.sent[CHOOSE i \in 1 .. Len(s.sent) : msg_ack(s.sent[i])]),
                tag |-> p.tag,
                by |-> IF \E i \in 1 .. Len(s.ran) : s.ran[i].name = "boot_done"
                       THEN "boot_done" ELSE "dispatcher"]>>
        ELSE <<>>)

RecvLogged(message, p) ==
    /\ ~oops
    /\ \E ub \in UbChoices :
       \E s \in { dcp_got_msg(Cur(ub), message, p) } :
          /\ CommitEngine(s, "recv", message, p)
          /\ cpu' = [cpu EXCEPT !.log = @ \o Traffic(s, message, p)]
    /\ UNCHANGED <<codec, parser>>

\* acks on the contexts that have a call channel; D116 start_hardware_boot
\* and D107 (a handler that returns true) on every callback context
BootAckInputs ==
    { i \in AckInputs :
        /\ msg_offset(i[1]) = 0
        /\ msg_ctx(i[1]) \in {DCP_CONTEXT_CB, DCP_CONTEXT_CMD, DCP_CONTEXT_OOBCMD} }

BootCbInputs ==
    { i \in CbInputs :
        /\ msg_ctx(i[1]) \in CbContexts
        /\ i[2].tag \in { <<"6", "1", "1", "D">>, <<"7", "0", "1", "D">> } }

RecvAckLogged == \E i \in BootAckInputs : RecvLogged(i[1], i[2])
RecvCbLogged == \E i \in BootCbInputs : RecvLogged(i[1], i[2])

NextBoot == RecvAckLogged \/ RecvCbLogged

SpecBoot == Init /\ [][NextBoot]_vars

(***************************************************************************)
(* Claims                                                                  *)
(***************************************************************************)
\* C1: for every ack, context id in 0..15, u16 offset and u32 length the word
\* built by dcpep_msg has type Message (2) in bits 1:0, ack in bit 6, the
\* context in bits 11:8, the offset in bits 31:16, the length in bits 63:32
\* and every other bit zero, and decoding it gives back the same tuple.
C1_EnvelopeRoundTrip ==
    /\ codec.pc \in {"word", "out"} =>
          /\ codec.word[1] = 2 + (IF codec.ack THEN 64 ELSE 0) + 256 * codec.id
          /\ codec.word[2] = codec.offset
          /\ codec.word[3] = codec.length[1]
          /\ codec.word[4] = codec.length[2]
    /\ codec.pc = "out" =>
          codec.out = [ type |-> 2, ack |-> codec.ack, ctx |-> codec.id,
                        offset |-> codec.offset, length |-> codec.length ]

C1_Witness ==
    /\ codec.pc = "out" /\ codec.ack /\ codec.id = 15
    /\ codec.offset = 65535 /\ codec.length = <<65535, 65535>>
    /\ codec.out.ctx = 15

(***************************************************************************)
(* Vocabulary of the claims about the engine                               *)
(***************************************************************************)
Chan(c) ==
    CASE c = "ch_cmd" -> ch_cmd [] c = "ch_oobcmd" -> ch_oobcmd
      [] c = "ch_cb" -> ch_cb [] c = "ch_oobcb" -> ch_oobcb
      [] c = "ch_async" -> ch_async

IsAck(w) == msg_ack(w)
IsCall(w) == ~msg_ack(w)
AcksSent == SelectSeq(sent, IsAck)
CallsSent == SelectSeq(sent, IsCall)

AckFor(c) == <<2 + 64 + 256 * c, 0, 0, 0>>

LastIsCallback(c) == last.op = "recv" /\ IsCallbackOn(last.message, c)
LastIsInitialized ==
    last.op = "recv" /\ msg_type(last.message) = DCPEP_TYPE_INITIALIZED
LastIsAckOn(ch) ==
    /\ last.op = "recv"
    /\ msg_type(last.message) = DCPEP_TYPE_MESSAGE
    /\ msg_ack(last.message)
    /\ dcp_get_call_channel(msg_ctx(last.message)) = ch

\* handlers that return false: the ack is left to a continuation
DeferringHandlers == {"dcpep_cb_boot_1"}

DecimalDigits == {"0", "1", "2", "3", "4", "5", "6", "7", "8", "9"}
TagUnparsable(tag) == tag[4] # "D" \/ \E i \in 1 .. 3 : tag[i] \notin DecimalDigits
TagId(tag) == 100 * DigitOf(tag[3]) + 10 * DigitOf(tag[2]) + DigitOf(tag[1])
TagUnknown(tag) ==
    \/ TagUnparsable(tag)
    \/ TagId(tag) \notin 0 .. 999
    \/ TagId(tag) \notin DOMAIN dcpep_cb_handlers

\* the step started with every depth inside 0..8
DepthsWereInRange == \A c \in Channels : last.pre[c] <= DCP_MAX_CALL_DEPTH

\* C2: every callback received on a callback context is answered by exactly
\* one ack naming that context, at once when the handler returns true and
\* not in the same step when it returns false, and no ack is sent that
\* answers no received callback (per context, acks never outnumber
\* callbacks); stated for steps that start with every depth inside 0..8.
CE_C2_OneAckPerCallback ==
    /\ DepthsWereInRange => \A c \in Contexts : owed[c] >= 0
    /\ \A c \in CbContexts :
          (LastIsCallback(c) /\ DepthsWereInRange) =>
             IF ran # <<>> /\ ran[1].name \in DeferringHandlers
             THEN AcksSent = <<>>
             ELSE AcksSent = <<AckFor(c)>>

\* C3: a callback packet on a callback context whose tag does not parse, or
\* whose id is outside 0..999 or has no handler, runs no handler, stores
\* nothing in the shared buffer and sends exactly one word: the ack of the
\* packet's context.
C3_UnknownCallbackAcked ==
    \A c \in CbContexts :
        (LastIsCallback(c) /\ TagUnknown(last.p.tag)) =>
            ran = <<>> /\ wrote = {} /\ sent = <<AckFor(c)>> /\ ~oops

C3_Witness ==
    /\ LastIsCallback(DCP_CONTEXT_ASYNC)
    /\ last.p.tag = <<"1", "0", "4", "A">>
    /\ sent = <<AckFor(DCP_CONTEXT_ASYNC)>>

\* the context a frame was pushed with: the boot chain pushes with Callback,
\* every other call site with Command
FrameCtx(cb) ==
    IF cb \in {"boot_1_5", "boot_2", "boot_3", "boot_4", "boot_5", "boot_done"}
    THEN DCP_CONTEXT_CB ELSE DCP_CONTEXT_CMD

Outstanding(c) ==
    Cardinality({i \in Slots : i < ch_cmd.depth /\ FrameCtx(ch_cmd.callbacks[i]) = c})

LastIsTopLevelPush == last.op = "swap" \/ LastIsInitialized

\* C4: no context id has two pushed calls that are not acked yet, and a new
\* top-level call on a call channel with depth > 0 is rejected: nothing is
\* written, nothing is sent, the depth stays.
CE_C4_ChannelBusy ==
    /\ ch_cmd.depth <= DCP_MAX_CALL_DEPTH =>
          \A c \in {DCP_CONTEXT_CMD, DCP_CONTEXT_CB} : Outstanding(c) <= 1
    /\ (LastIsTopLevelPush /\ last.pre["ch_cmd"] > 0) =>
          sent = <<>> /\ wrote = {} /\ ch_cmd.depth = last.pre["ch_cmd"]

\* C5: dcp_swap on a command channel of depth >= 1 sends nothing, leaves the
\* channel as it is and signals a completion event.
CE_C5_SwapWhileBusy ==
    [][ (last'.op = "swap" /\ ch_cmd.depth >= 1) =>
            (sent' = <<>> /\ ch_cmd' = ch_cmd /\ vblank' >= 1) ]_vars

FrameAccesses ==
    {"read_frame", "write_frame", "read_end", "read_output", "write_output"}

\* C6: every depth stays in 0..8 and no frame slot of index 8 or more (or
\* below 0) is read or written.
CE_C6_DepthBounded ==
    /\ \A c \in Channels : Chan(c).depth <= DCP_MAX_CALL_DEPTH
    /\ oob \cap FrameAccesses = {}

\* C7: a pushed packet starts at 0 exactly when the depth before the push is
\* 0 and else at the end offset of the frame below; starts are multiples of
\* 64 and the end offsets of the active stack increase strictly.
CE_C7_PacketStart ==
    /\ \A i \in 1 .. Len(sent) :
          IsCall(sent[i]) =>
            LET ch == Chan(dcp_get_call_channel(msg_ctx(sent[i])))
                before == (ch.depth + U8 - 1) % U8
                off == msg_offset(sent[i])
            IN /\ (off = 0) <=> (before = 0)
               /\ before > 0 => ((before - 1) \in Slots /\ off = ch.end[before - 1])
               /\ off % DCP_PACKET_ALIGNMENT = 0
    /\ \A c \in CallChannels :
          Chan(c).depth <= DCP_MAX_CALL_DEPTH =>
            \A i, j \in Slots :
                (i < j /\ j < Chan(c).depth) => Chan(c).end[i] < Chan(c).end[j]

\* C8: a packet written by dcp_push ends inside the 0x8000 bytes of its
\* window and its end offset, rounded up to 64, fits 16 bits.
CE_C8_PacketInsideWindow ==
    \A i \in 1 .. Len(sent) :
        IsCall(sent[i]) =>
          \A w \in wrote :
              w.by = "dcp_push" =>
                /\ msg_offset(sent[i]) + HEADER_SIZE + w.in_len + w.out_len <= 32768
                /\ msg_offset(sent[i])
                     + ALIGN(HEADER_SIZE + w.in_len + w.out_len, 64) < U16

\* C9 as stated: start_signal on the idle Command channel sends one envelope
\* of type Message, ack 0, context Command, offset 0 and length 12.
CE_C9_StartSignalLength12 ==
    (LastIsInitialized /\ last.pre["ch_cmd"] = 0) => sent = << <<2 + 256 * 2, 0, 12, 0>> >>

\* C9 amended: the same with length 16, the 12 bytes of the header plus the
\* 4 bytes of output; the packet written at offset 0 of the Command window
\* carries the tag A401 reversed, in_len 0 and out_len 4.
C9_StartSignalEnvelope ==
    (LastIsInitialized /\ last.pre["ch_cmd"] = 0) =>
        /\ sent = << <<2 + 256 * 2, 0, 16, 0>> >>
        /\ \E w \in wrote :
              /\ w.by = "dcp_push" /\ w.addr = 0
              /\ w.tag = <<"1", "0", "4", "A">> /\ w.in_len = 0 /\ w.out_len = 4

C9_Witness ==
    /\ LastIsInitialized /\ last.pre["ch_cmd"] = 0
    /\ Len(sent) = 1 /\ ch_cmd.depth = 1
    /\ ch_cmd.callbacks[0] = "dcp_started"

\* C10: the continuation run by an ack on a call channel with a call
\* outstanding gets the output location recorded in the popped frame,
\* whatever offset and context the ack word carries.
CE_C10_ContinuationOutput ==
    [][ \A c \in CallChannels :
          (LastIsAckOn(c)' /\ Chan(c).depth \in 1 .. DCP_MAX_CALL_DEPTH /\ ran' # <<>>)
            => ran'[1].arg = Chan(c).output[Chan(c).depth - 1] ]_vars

\* the continuation each call site registers for its method, by the tag as
\* the packet carries it
ContinuationOf ==
    (Reverse4(dcp_methods.start_signal) :> "dcp_started")
    @@ (Reverse4(dcp_methods.set_display_device) :> "dcp_set_4k")
    @@ (Reverse4(dcp_methods.set_digital_out_mode) :> "modeset_done")
    @@ (Reverse4(dcp_methods.swap_start) :> "dcp_swap_started")
    @@ (Reverse4(dcp_methods.swap_submit) :> "dcp_swapped")
    @@ (Reverse4(dcp_methods.set_create_dfb) :> "boot_1_5")
    @@ (Reverse4(dcp_methods.create_default_fb) :> "boot_2")
    @@ (Reverse4(dcp_methods.setup_video_limits) :> "boot_3")
    @@ (Reverse4(dcp_methods.flush_supports_power) :> "boot_4")
    @@ (Reverse4(dcp_methods.late_init_signal) :> "boot_5")
    @@ (Reverse4(dcp_methods.set_display_refresh_properties) :> "boot_done")

\* C11: an ack received for a call channel with calls outstanding runs
\* exactly one continuation, that of the call pushed last among those not
\* completed yet, and the depth counts the outstanding calls before and
\* after the step (the ack takes exactly one off).
CE_C11_LifoCompletion ==
    [][ \A c \in CallChannels :
          (LastIsAckOn(c)' /\ pending[c] # <<>>) =>
            /\ Len(ran') = 1
            /\ ran'[1].name = ContinuationOf[pending[c][Len(pending[c])]]
            /\ Chan(c).depth = Len(pending[c])
            /\ Chan(c)'.depth = Len(pending'[c]) ]_vars

\* C12: an envelope sent by dcp_push names Command or OobCommand exactly
\* when the depth of its call channel was 0 before the push, and Callback or
\* OobCallback exactly when that depth was greater than 0.
CE_C12_ContextFollowsDepth ==
    \A i \in 1 .. Len(sent) :
        IsCall(sent[i]) =>
          LET ch == Chan(dcp_get_call_channel(msg_ctx(sent[i])))
              before == (ch.depth + U8 - 1) % U8
          IN /\ (msg_ctx(sent[i]) \in {DCP_CONTEXT_CMD, DCP_CONTEXT_OOBCMD}) <=> (before = 0)
             /\ (msg_ctx(sent[i]) \in {DCP_CONTEXT_CB, DCP_CONTEXT_OOBCB}) <=> (before > 0)

\* the byte a constant responder stores
ConstantOf(h) == IF h = "dcpep_cb_true" THEN 1 ELSE 0

\* address of the packet the last received word names
LastData == dcp_channel_offset(msg_ctx(last.message)) + msg_offset(last.message)

\* C13: a callback on a callback context whose id is registered with the
\* constant-true (constant-false) responder stores 1 (0) in the first byte
\* of the packet's output region, packet start + 12 + in_len, stores nothing
\* else, and sends exactly one word: the ack of the same context.
CE_C13_ConstantResponder ==
    \A c \in CbContexts :
        (/\ LastIsCallback(c)
         /\ ~TagUnknown(last.p.tag)
         /\ dcpep_cb_handlers[TagId(last.p.tag)] \in {"dcpep_cb_true", "dcpep_cb_false"})
        =>
          /\ \E w \in wrote :
                /\ wrote = {w}
                /\ w.addr = LastData + HEADER_SIZE + last.p.in_len
                /\ w.len = 1
                /\ w.data = ConstantOf(dcpep_cb_handlers[TagId(last.p.tag)])
          /\ sent = <<AckFor(c)>>

\* the callback ids of the memory handlers, as the packet carries them
TagMapPhysical == <<"2", "5", "4", "D">>

\* [paddr, paddr + size) lies inside one of the advertised register windows
InsideWindow(paddr, size) ==
    /\ Le64(paddr, Add64(paddr, size))
    /\ \E i \in 1 .. Len(registers) :
          /\ Le64(registers[i][1], paddr)
          /\ Le64(Add64(paddr, size), Add64(registers[i][1], registers[i][2]))

\* C14: a map_physical callback whose range is not inside an advertised
\* register window makes no dma_map_resource call, assigns no mapping id,
\* stores a non-zero status in its reply and is acked.
CE_C14_MapPhysicalChecked ==
    (/\ LastIsCallback(DCP_CONTEXT_CB)
     /\ last.p.tag = TagMapPhysical
     /\ ~InsideWindow(last.p.req.x, last.p.req.y))
    =>
      /\ \A i \in 1 .. Len(memops) : memops[i].api # "dma_map_resource"
      /\ \A i \in 1 .. Len(reply) : reply[i].id = <<>>
      /\ \E i \in 1 .. Len(reply) : reply[i].ret > 0
      /\ sent = <<AckFor(DCP_CONTEXT_CB)>>

\* the method whose call is the newest one outstanding on channel c
Awaited(c) == IF pending[c] = <<>> THEN <<>> ELSE pending[c][Len(pending[c])]

TagSwapStart == Reverse4(dcp_methods.swap_start)
TagSwapSubmit == Reverse4(dcp_methods.swap_submit)

\* C15: when the ack of swap_submit arrives, apple_crtc_vblank is called (once)
\* if and only if the status the continuation reads is non-zero; then the
\* DRM core gets the vblank unless vblanks are off, and a stored event is
\* sent; with status zero nothing reaches the display driver.  The step sends
\* no envelope.
C15_SwappedSignalsOnFailure ==
    [][ (LastIsAckOn("ch_cmd")' /\ Awaited("ch_cmd") = TagSwapSubmit) =>
          /\ vblank' = (IF last'.p.val # 0 THEN 1 ELSE 0)
          /\ drm' = (IF last'.p.val = 0 \/ apple.vsync_disabled THEN <<>>
                     ELSE <<"drm_crtc_handle_vblank">>
                          \o (IF apple.event THEN <<"drm_crtc_send_vblank_event">>
                              ELSE <<>>))
          /\ (last'.p.val # 0 /\ ~apple.vsync_disabled) => ~apple'.event
          /\ last'.p.val = 0 => apple' = apple
          /\ sent' = <<>> ]_vars

C15_Witness ==
    /\ LastIsAckOn("ch_cmd") /\ last.p.val # 0
    /\ Len(ran) = 1 /\ ran[1].name = "dcp_swapped"
    /\ drm = <<"drm_crtc_handle_vblank", "drm_crtc_send_vblank_event">>

\* the packets of method tg that dcp_push wrote in the step that just ended
Pushed(tg) == { w \in wrote : w.by = "dcp_push" /\ w.tag = tg }

\* C16: dcp_swap sends one swap_start envelope on the Command context; a
\* swap_submit envelope is sent only by the step that receives the ack of an
\* outstanding swap_start, one per ack, on the Command context, and the swap
\* id it carries is read at the output location recorded for that swap_start.
CE_C16_TwoPhaseSwap ==
    [][ /\ last'.op = "swap" =>
              /\ Len(sent') = 1 /\ IsCall(sent'[1])
              /\ msg_ctx(sent'[1]) = DCP_CONTEXT_CMD
              /\ Pushed(TagSwapStart)' # {} /\ Pushed(TagSwapSubmit)' = {}
        /\ Pushed(TagSwapSubmit)' # {} =>
              /\ LastIsAckOn("ch_cmd")' /\ Awaited("ch_cmd") = TagSwapStart
              /\ Len(sent') = 1 /\ IsCall(sent'[1])
              /\ msg_ctx(sent'[1]) = DCP_CONTEXT_CMD
              /\ ch_cmd.depth \in 1 .. DCP_MAX_CALL_DEPTH
              /\ ran'[1].arg = ch_cmd.output[ch_cmd.depth - 1]
        /\ (LastIsAckOn("ch_cmd")' /\ Awaited("ch_cmd") = TagSwapStart) =>
              Pushed(TagSwapSubmit)' # {} ]_vars

\* C17: a swap-completion callback (D589) received on a callback context
\* calls apple_crtc_vblank exactly once and is then acked on its context.
CE_C17_SwapCompleteSignals ==
    \A c \in {DCP_CONTEXT_CB, DCP_CONTEXT_OOBCB, DCP_CONTEXT_ASYNC} :
        (LastIsCallback(c) /\ last.p.tag = TagSwapComplete) =>
            /\ ~oops
            /\ vblank = 1
            /\ Len(ran) = 1 /\ ran[1].name = "dcpep_cb_swap_complete"
            /\ sent = <<AckFor(c)>>

\* where the tag of the operation recorded in parser lies, and that tag
TagPos == round_up(parser.before.pos, 4)
TagWord == TagAt(parser.before, TagPos)

\* the bytes an operation needs past the position of its tag
Needs(op) ==
    CASE op = "parse_int64" -> 4 + 8
      [] op = "parse_string" -> 4 + TagWord.size
      [] OTHER -> 4

TypedOps == {"parse_tag", "parse_int64", "parse_string", "parse_bool"}

\* C18: parse on a blob shorter than 4 bytes fails; parse_tag, parse_int64,
\* parse_string and parse_bool fail when the tag word, or the 8 bytes of an
\* Int64, or the `size` bytes of a String, end past the blob length; and no
\* operation dereferences an index at or beyond the blob length.
C18_TruncatedInputRefused ==
    /\ parser.h.reads \subseteq 0 .. parser.h.len - 1
    /\ (parser.op = "parse" /\ parser.h.len < 4) => parser.ret = EINVAL_NEG
    /\ (parser.op \in TypedOps /\ TagPos + 4 > parser.h.len) =>
          parser.ret = EINVAL_NEG
    /\ (parser.op \in {"parse_int64", "parse_string"}
          /\ TagPos + 4 <= parser.h.len
          /\ TagPos + Needs(parser.op) > parser.h.len) =>
          parser.ret = EINVAL_NEG

\* a String tag inside the blob whose bytes end past it has been refused
C18_Witness ==
    /\ parser.op = "parse_string" /\ parser.ret = EINVAL_NEG
    /\ TagPos + 4 <= parser.h.len
    /\ TagWord.type = OS_OTYPE_STRING /\ TagWord.padding = 0
    /\ TagPos + 4 + TagWord.size > parser.h.len
    /\ parser.h.reads = 0 .. TagPos + 3

\* C19: after every operation the cursor is at most the blob length, and an
\* operation that found the cursor inside the blob and reports success has
\* left it inside.
CE_C19_CursorInsideBlob ==
    /\ parser.h.pos <= parser.h.len
    /\ (parser.before.pos <= parser.h.len /\ parser.ret = 0) =>
          parser.h.pos <= parser.h.len

\* C20: a list of (String key, Int64 or Bool value) pairs written in the wire
\* format is read back by parse, iterator_begin, parse_string, parse_int64
\* and parse_bool without an error, and when the iterator is exhausted the
\* pairs read are the pairs written, in the same order.
C20_DictionaryRoundTrip ==
    /\ parser.ret = 0
    /\ parser.pc # "begin" => parser.it.len = Len(parser.src)
    /\ parser.got = SubSeq(parser.src, 1, Len(parser.got))
    /\ parser.pc = "value" => parser.key = parser.src[parser.it.idx + 1].key
    /\ parser.pc = "done" =>
          /\ parser.got = parser.src
          /\ parser.h.pos = parser.h.len

\* two pairs read back: an unaligned key with a negative Int64, then a Bool
C20_Witness ==
    /\ parser.pc = "done" /\ Len(parser.got) = 2
    /\ parser.got[1].key = <<87, 105, 100>>
    /\ parser.got[1].type = OS_OTYPE_INT64
    /\ parser.got[1].int = <<65535, 65535, 65535, 65535>>
    /\ parser.got[2].type = OS_OTYPE_BOOL /\ parser.got[2].bool

\* the entries of the array just parsed that carry a Score >= 0 and an ID >= 0
Qualifying ==
    { i \in 1 .. Len(parser.src) :
        /\ parser.src[i].has_score /\ parser.src[i].has_id
        /\ parser.src[i].score >= 0 /\ parser.src[i].id >= 0 }

\* C21: parse_color_modes returns 0 and the ID of the first entry with the
\* highest Score among the entries with non-negative Score and ID, and -1
\* when there is none.
C21_BestColorMode ==
    parser.op = "parse_color_modes" =>
        /\ parser.ret = 0
        /\ parser.h.pos = parser.h.len
        /\ Qualifying = {} => parser.best_id = S64Minus1
        /\ \A i \in Qualifying :
              (\A j \in Qualifying :
                  \/ parser.src[j].score < parser.src[i].score
                  \/ parser.src[j].score = parser.src[i].score /\ i <= j)
              => parser.best_id = S64Of(parser.src[i].id)

\* Scores 7 and 7 with IDs 2 and 1: the first entry wins
C21_Witness ==
    /\ parser.op = "parse_color_modes" /\ Len(parser.src) = 2
    /\ parser.src[1].score = 7 /\ parser.src[2].score = 7
    /\ parser.src[1].id = 2 /\ parser.src[2].id = 1
    /\ parser.best_id = <<2, 0, 0, 0>>

\* the calls of the boot chain that dcpep_cb_boot_1 starts
BootChain ==
    { dcp_methods.set_create_dfb, dcp_methods.create_default_fb,
      dcp_methods.setup_video_limits, dcp_methods.flush_supports_power,
      dcp_methods.late_init_signal, dcp_methods.set_display_refresh_properties }

BootDoneRan == \E i \in 1 .. Len(ran) : ran[i].name = "boot_done"

TagBoot == <<"6", "1", "1", "D">>

\* C22: the step that receives start_hardware_boot (id 116) sends no ack and
\* pushes the first nested call; the ack of the callback is sent in the step
\* in which the last nested call is acked (boot_done runs): exactly one ack,
\* naming a context on which a callback was waiting for its ack, with the
\* byte 1 stored at the callback's output location and no call of the boot
\* chain outstanding; stated for steps that start with every depth in 0..8.
CE_C22_BootAckAfterChain ==
    /\ \A c \in CbContexts :
          (LastIsCallback(c) /\ last.p.tag = TagBoot /\ DepthsWereInRange) =>
              /\ AcksSent = <<>>
              /\ Len(CallsSent) = 1
    /\ (BootDoneRan /\ DepthsWereInRange) =>
          /\ ~oops
          /\ "read_output" \notin oob
          /\ \E w \in wrote : w.by = "boot_done" /\ w.data = 1
          /\ Len(AcksSent) = 1
          /\ owed[msg_ctx(AcksSent[1])] >= 0
          /\ \A c \in CallChannels :
                \A i \in 1 .. Len(pending[c]) : pending[c][i] \notin BootChain

\* the same for a start_hardware_boot received on context Callback while no
\* other callback waits on any context
C22_OnCallbackContext ==
    (BootDoneRan /\ DepthsWereInRange /\ last.pre["ch_cb"] = 1
       /\ owed[DCP_CONTEXT_OOBCB] = 0 /\ owed[DCP_CONTEXT_ASYNC] = 0) =>
          /\ ~oops
          /\ "read_output" \notin oob
          /\ \E w \in wrote : w.by = "boot_done" /\ w.data = 1
          /\ AcksSent = <<AckFor(DCP_CONTEXT_CB)>>
          /\ owed[DCP_CONTEXT_CB] = 0

DefinedContexts ==
    {DCP_CONTEXT_CB, DCP_CONTEXT_CMD, DCP_CONTEXT_ASYNC, DCP_CONTEXT_OOBCB,
     DCP_CONTEXT_OOBCMD}

\* a word of a type other than Initialized and Message, or a Message word
\* whose context is not a defined one
Unrecognized(message) ==
    \/ msg_type(message) \notin {DCPEP_TYPE_INITIALIZED, DCPEP_TYPE_MESSAGE}
    \/ /\ msg_type(message) = DCPEP_TYPE_MESSAGE
       /\ msg_ctx(message) \notin DefinedContexts

\* C23: a step that receives a word whose type is neither Initialized nor
\* Message, or a Message word whose context is not one of the five defined
\* ids, leaves every channel (depth and frames) and the active flag as they
\* were, runs no handler and no continuation, writes nothing and sends no
\* word.
C23_UnrecognizedWordDropped ==
    [][ (last'.op = "recv" /\ Unrecognized(last'.message)) =>
            /\ ch_cmd' = ch_cmd /\ ch_oobcmd' = ch_oobcmd
            /\ ch_cb' = ch_cb /\ ch_oobcb' = ch_oobcb /\ ch_async' = ch_async
            /\ active' = active /\ oops' = oops
            /\ ran' = <<>> /\ sent' = <<>> /\ wrote' = {} /\ oob' = {} ]_vars

C23_Witness ==
    /\ last.op = "recv"
    /\ msg_type(last.message) = DCPEP_TYPE_MESSAGE
    /\ msg_ctx(last.message) = 1
    /\ last.p.tag = <<"7", "0", "1", "D">>
    /\ last.pre["ch_cmd"] = 1 /\ ch_cmd.depth = 1
    /\ sent = <<>> /\ ran = <<>>

AllIdle == \A t \in Threads : cpu[t].pc = "idle"

\* C24: dcp_swap and the processing of a received word never interleave, so
\* that no two calls the coprocessor has to answer hold the same stack index
\* of the command channel or the same packet address, and between entry
\* points the depth of the command channel is the number of those calls.
CE_C24_EntryPointsSerialized ==
    /\ \A i, j \in 1 .. Len(cpu.calls) :
          i < j => /\ cpu.calls[i].index # cpu.calls[j].index
                   /\ cpu.calls[i].addr >= 0 /\ cpu.calls[j].addr >= 0
                         => cpu.calls[i].addr # cpu.calls[j].addr
    /\ AllIdle => ch_cmd.depth = Len(cpu.calls)

\* order of two u32 held as <<low half, high half>>
Lt32(a, b) == a[2] < b[2] \/ (a[2] = b[2] /\ a[1] < b[1])

\* the mapping ids stored in replies by the step that leads to the primed state
IssuedIds == { reply'[i].id : i \in { j \in 1 .. Len(reply') : reply'[j].id # <<>> } }

\* C25: every mapping id returned by allocate_buffer or map_physical is at
\* least 1 and greater than the counter that holds the newest id returned
\* before it, and becomes that counter (so ids strictly increase and none is
\* returned twice); no step stores an entry at index 0 of the mapping table.
CE_C25_MappingIdsIncrease ==
    [][ /\ \A id \in IssuedIds :
              /\ id # <<0, 0>>
              /\ Lt32(nr_mappings, id)
              /\ nr_mappings' = id
        /\ \A i \in 1 .. Len(memops') :
              memops'[i].api = "mappings_store" => memops'[i].idx # 0 ]_vars

\* the same for a session that has not yet issued 2^32 - 1 ids
C25_BeforeTheCounterWraps ==
    [][ nr_mappings # <<65535, 65535>> =>
          /\ \A id \in IssuedIds :
                /\ id # <<0, 0>>
                /\ Lt32(nr_mappings, id)
                /\ nr_mappings' = id
          /\ \A i \in 1 .. Len(memops') :
                memops'[i].api = "mappings_store" => memops'[i].idx # 0 ]_vars

TagAllocateBuffer == <<"1", "5", "4", "D">>

\* the step handled allocate_buffer and took an id of 128 or more
AllocateExhausted ==
    /\ LastIsCallback(DCP_CONTEXT_CB)
    /\ last.p.tag = TagAllocateBuffer
    /\ (nr_mappings[2] > 0 \/ nr_mappings[1] >= DCP_MAX_MAPPINGS)

\* C26: an allocate_buffer callback whose id would be 128 or more stores no
\* entry in the mapping table, allocates no buffer, is acked, and its reply
\* carries a non-zero status.
CE_C26_ExhaustedTableStatus ==
    AllocateExhausted =>
        /\ \A i \in 1 .. Len(memops) :
              memops[i].api \notin {"mappings_store", "dma_alloc_coherent",
                                    "dma_get_sgtable"}
        /\ sent = <<AckFor(DCP_CONTEXT_CB)>>
        /\ \E i \in 1 .. Len(reply) : reply[i].ret > 0

\* what the handler does do in that case
C26_ExhaustedTableUntouched ==
    AllocateExhausted =>
        /\ \A i \in 1 .. Len(memops) :
              memops[i].api \notin {"mappings_store", "dma_alloc_coherent",
                                    "dma_get_sgtable"}
        /\ sent = <<AckFor(DCP_CONTEXT_CB)>>
        /\ \A i \in 1 .. Len(reply) : reply[i].ret = -1

TagMapPiodma == <<"1", "0", "2", "D">>

LastIsMapPiodma == LastIsCallback(DCP_CONTEXT_CB) /\ last.p.tag = TagMapPiodma

PiodmaMapped == \E i \in 1 .. Len(memops) : memops[i].api = "dma_map_sgtable"

\* the index is one that map_piodma has to refuse: 128 or more, 0, or an
\* index whose table entry no allocate_buffer filled (map_physical fills
\* none)
MustRefuse(buffer) ==
    \/ Le64(U64(DCP_MAX_MAPPINGS), buffer)
    \/ buffer = U64(0)
    \/ buffer[1] \notin mappings

\* C27: a map_piodma callback maps only an index below 128, other than 0,
\* whose table entry was filled by allocate_buffer; for every other index it
\* makes no mapping, stores the status EINVAL and is acked.
CE_C27_PiodmaOnlyAllocated ==
    LastIsMapPiodma =>
        /\ PiodmaMapped => ~MustRefuse(last.p.req.x)
        /\ MustRefuse(last.p.req.x) =>
              /\ ~PiodmaMapped
              /\ \E i \in 1 .. Len(reply) : reply[i].ret = EINVAL
              /\ sent = <<AckFor(DCP_CONTEXT_CB)>>

\* the same while index 0 of the table is empty
C27_WhileIndexZeroIsEmpty ==
    (LastIsMapPiodma /\ 0 \notin mappings) =>
        /\ PiodmaMapped => ~MustRefuse(last.p.req.x)
        /\ MustRefuse(last.p.req.x) =>
              /\ ~PiodmaMapped
              /\ \E i \in 1 .. Len(reply) : reply[i].ret = EINVAL
              /\ sent = <<AckFor(DCP_CONTEXT_CB)>>

\* C28: an ack word for a call channel whose depth is 0 runs no continuation,
\* reads no frame slot and leaves the depth at 0; and no step takes the depth
\* of any channel from 0 to 255 (dcp_ack on a callback channel of depth 0
\* does not decrement it).
CE_C28_UnderflowRefused ==
    /\ \A c \in CallChannels :
          (LastIsAckOn(c) /\ last.pre[c] = 0) =>
              /\ Depths[c] = 0
              /\ ran = <<>>
              /\ "read_frame" \notin oob
    /\ \A c \in Channels : last.pre[c] = 0 => Depths[c] # U8 - 1

\* the places of the log that hold a SetSharedMemory word
ShmemWords ==
    { i \in 1 .. Len(cpu.log) :
        cpu.log[i].kind = "word" /\ msg_type(cpu.log[i].w) = DCPEP_TYPE_SET_SHMEM }

\* C29: the host sends one SetSharedMemory word per session (none before the
\* probe sends it, one after), with type 0 in bits 1:0, 4 in bits 7:4, zero
\* in bits 15:8 and 3:2 and the address of the shared buffer in bits 63:16;
\* every Message word sent and every packet written comes after it.
CE_C29_SetShmemFirst ==
    /\ Cardinality(ShmemWords) = (IF cpu.probe = "done" THEN 1 ELSE 0)
    /\ \A i \in ShmemWords :
          /\ cpu.log[i].w[1] = DCPEP_FLAG_VALUE * 16
          /\ cpu.shmem # NULL =>
                <<cpu.log[i].w[2], cpu.log[i].w[3], cpu.log[i].w[4]>>
                    = <<cpu.iova[1], cpu.iova[2], cpu.iova[3]>>
    /\ \A i \in 1 .. Len(cpu.log) :
          (\/ cpu.log[i].kind = "write"
           \/ msg_type(cpu.log[i].w) = DCPEP_TYPE_MESSAGE)
          => \E j \in ShmemWords : j < i

\* the same when no word is received before the probe has sent its word
C29_ProbeAlone ==
    (\A i \in 1 .. Len(cpu.log) : i \in ShmemWords) =>
        /\ Cardinality(ShmemWords) = (IF cpu.probe = "done" THEN 1 ELSE 0)
        /\ \A i \in ShmemWords :
              /\ cpu.log[i].w[1] = DCPEP_FLAG_VALUE * 16
              /\ cpu.shmem # NULL =>
                    <<cpu.log[i].w[2], cpu.log[i].w[3], cpu.log[i].w[4]>>
                        = <<cpu.iova[1], cpu.iova[2], cpu.iova[3]>>

\* C30: for every mode table in which a container tag that enumerate_modes
\* expects (the top-level Array, a mode Dictionary, an attributes Dictionary,
\* a ColorModes Array) is cut off, has a padding bit set or has another type,
\* enumerate_modes returns an error.
CE_C30_BadContainerRefused ==
    (parser.op = "enumerate_modes" /\ parser.dmg.kind # "none") => parser.ret # 0

\* C31: on a whole value, skip returns 0, and when the typed parse has run
\* too it returned 0 and both left the cursor at the same position, inside
\* the blob
C31_SkipFollowsTypedParse ==
    (parser.wf /\ parser.skipped.done) =>
        /\ parser.skipped.ret = 0
        /\ parser.skipped.h.pos <= parser.h.len
        /\ parser.typed.done =>
              /\ parser.typed.ret = 0 /\ ~parser.typed.fault
              /\ parser.typed.h.pos = parser.skipped.h.pos

\* a Dictionary that holds a Dictionary of two pairs was skipped and parsed
C31_Witness ==
    /\ parser.wf /\ parser.skipped.done /\ parser.typed.done
    /\ TagAt(parser.h, 4).type = OS_OTYPE_DICTIONARY
    /\ TagAt(parser.h, 16).type = OS_OTYPE_DICTIONARY
    /\ TagAt(parser.h, 16).size = 2
    /\ parser.skipped.h.pos > 40

\* C32: parse_mode returns the same code and extracts the same dimensions,
\* id, preferred flag and best color mode from a mode dictionary with an
\* added pair of an unknown key and a whole value as from the one without
C32_UnknownKeyChangesNothing ==
    (parser.plain.done /\ parser.added.done) =>
        /\ parser.added.ret = parser.plain.ret
        /\ parser.added.m = parser.plain.m

\* the pair went between Score and ID of a color mode, with a Dictionary
\* as its value, and the mode was parsed with the fields of the plain one
C32_Witness ==
    /\ parser.plain.done /\ parser.added.done
    /\ parser.add.site = "color1" /\ parser.add.at = 1
    /\ parser.add.pair[2][4] % 32 = OS_OTYPE_DICTIONARY
    /\ parser.added.ret = 0
    /\ parser.added.m.best_color_mode = U64(1)
    /\ parser.added.m.horiz[KeyActive] = U64(1920)
    /\ parser.added.m.id = U64(4)
    /\ parser.added.m.is_preferred

RECURSIVE ChainCalls(_, _, _)
\* the tags of the calls pushed for the start_hardware_boot callback whose
\* ack is the last entry of log: the log is read backwards from entry i,
\* open counts the acks of boot_done met whose callback is still to come.
\* A word on a context without a callback channel reaches no handler
ChainCalls(log, i, open) ==
    IF i = 0 THEN <<>>
    ELSE CASE log[i].kind = "ack" /\ log[i].by = "boot_done" ->
                 ChainCalls(log, i - 1, open + 1)
           [] log[i].kind = "callback" /\ log[i].tag = TagBoot
                /\ log[i].ctx \in CbContexts ->
                 IF open = 0 THEN <<>> ELSE ChainCalls(log, i - 1, open - 1)
           [] log[i].kind = "call" /\ open = 0 ->
                 Append(ChainCalls(log, i - 1, open), log[i].tag)
           [] OTHER -> ChainCalls(log, i - 1, open)

BootAcked ==
    /\ cpu.log # <<>>
    /\ cpu.log[Len(cpu.log)].kind = "ack"
    /\ cpu.log[Len(cpu.log)].by = "boot_done"

\* C33 as stated: five nested calls lie between the start_hardware_boot
\* callback and the ack that boot_done sends for it
CE_C33_FiveNestedCalls ==
    BootAcked => Len(ChainCalls(cpu.log, Len(cpu.log) - 1, 0)) = 5

\* C33, amended: six nested calls lie between the start_hardware_boot
\* callback and the ack that boot_done sends for it: set_create_dfb,
\* create_default_fb, setup_video_limits, flush_supports_power,
\* late_init_signal and set_display_refresh_properties, in this order
C33_SixNestedCalls ==
    BootAcked =>
        ChainCalls(cpu.log, Len(cpu.log) - 1, 0) =
            << Reverse4(dcp_methods.set_create_dfb),
               Reverse4(dcp_methods.create_default_fb),
               Reverse4(dcp_methods.setup_video_limits),
               Reverse4(dcp_methods.flush_supports_power),
               Reverse4(dcp_methods.late_init_signal),
               Reverse4(dcp_methods.set_display_refresh_properties) >>

\* a boot chain ran to its ack while the chain of an earlier
\* start_hardware_boot callback was waiting, and then that one did
C33_Witness ==
    /\ BootAcked
    /\ Cardinality({ i \in 1 .. Len(cpu.log) :
                       cpu.log[i].kind = "ack" /\ cpu.log[i].by = "boot_done" }) = 2
    /\ Len(ChainCalls(cpu.log, Len(cpu.log) - 1, 0)) = 6
    /\ Len(cpu.log) = 16
    /\ cpu.log[3].kind = "callback"

\* C34: the step that receives the hot-plug callback with "connected" sends
\* no ack and pushes the first call of a mode-set chain; the step that
\* receives it with "disconnected" sends the ack of the callback and pushes
\* no call
CE_C34_HotplugModeset ==
    \A c \in CbContexts :
        (LastIsCallback(c) /\ last.p.tag = TagHotplug /\ DepthsWereInRange) =>
            IF last.p.val = 1
            THEN AcksSent = <<>> /\ Len(CallsSent) = 1
            ELSE AcksSent = <<AckFor(c)>> /\ CallsSent = <<>>

\* holds for "disconnected": the ack at once and no call
C34_DisconnectedAckedAtOnce ==
    \A c \in CbContexts :
        (LastIsCallback(c) /\ last.p.tag = TagHotplug /\ DepthsWereInRange
           /\ last.p.val = 0) =>
            AcksSent = <<AckFor(c)>> /\ CallsSent = <<>>

\* the depth of the callback channel of context c, after and before the step
CbDepth(c) == Depths[dcp_get_cb_channel(c)]
CbDepthBefore(c) == last.pre[dcp_get_cb_channel(c)]

TagInRange(tag) == dcp_parse_tag(tag) >= 0 /\ dcp_parse_tag(tag) < DCPEP_MAX_CB

\* C35: after the dispatch of a non-ack packet on a callback context, whatever
\* its tag, the depth of that callback channel is the depth before the
\* dispatch when the ack was sent during the dispatch and one more when the
\* ack is deferred: the dispatcher pops no frame it did not push (stated for
\* steps that start with every depth inside 0..8 and do not oops)
CE_C35_DepthBalanced ==
    \A c \in CbContexts :
        (LastIsCallback(c) /\ DepthsWereInRange /\ ~oops) =>
            CbDepth(c) = IF AcksSent # <<>> THEN CbDepthBefore(c)
                         ELSE CbDepthBefore(c) + 1

\* holds for the tags that parse to an id in 0..999, with or without handler
C35_ParsedTagBalanced ==
    \A c \in CbContexts :
        (LastIsCallback(c) /\ DepthsWereInRange /\ ~oops /\ TagInRange(last.p.tag)) =>
            CbDepth(c) = IF AcksSent # <<>> THEN CbDepthBefore(c)
                         ELSE CbDepthBefore(c) + 1

\* the word is a non-ack Message on a call context (Command, OobCommand)
LastIsCallbackOnCallContext ==
    /\ last.op = "recv"
    /\ msg_type(last.message) = DCPEP_TYPE_MESSAGE
    /\ ~msg_ack(last.message)
    /\ msg_ctx(last.message) \in {DCP_CONTEXT_CMD, DCP_CONTEXT_OOBCMD}

\* C36: a non-ack Message on context Command or OobCommand is rejected
\* without the use of a callback channel: nothing is read or changed through
\* the missing channel (no oops, every depth as before), no handler runs and
\* no ack is sent
CE_C36_CallContextRejected ==
    LastIsCallbackOnCallContext =>
        ~oops /\ oob = {} /\ Depths = last.pre /\ ran = <<>> /\ sent = <<>>

\* the step pushed the call `method`
SentCall(method) ==
    /\ \E i \in 1 .. Len(sent) : ~msg_ack(sent[i])
    /\ \E w \in wrote : w.by = "dcp_push" /\ w.tag = Reverse4(dcp_methods[method])

\* the step receives an ack on a context of channel ch_cmd while `method` is
\* the newest call outstanding there
AckOf(method) ==
    /\ pending["ch_cmd"] # <<>>
    /\ pending["ch_cmd"][Len(pending["ch_cmd"])] = Reverse4(dcp_methods[method])
    /\ last'.op = "recv"
    /\ IsAckOn(last'.message, "ch_cmd")

\* C37: dcp->active (what dcp_is_initialized returns) is false after probe;
\* start_signal is pushed in the step that receives Initialized and in no
\* other (in every such step that does not oops), set_display_device only in
\* a step that processes the ack of start_signal, set_digital_out_mode only
\* in a step that processes the ack of set_display_device, active turns true
\* only in a step that processes the ack of set_digital_out_mode, and once
\* true it stays true
C37_InitializedAfterChain ==
    /\ ~active
    /\ [][ /\ SentCall("start_signal")' => LastIsInitialized'
           /\ (LastIsInitialized' /\ ~oops') => SentCall("start_signal")'
           /\ SentCall("set_display_device")' => AckOf("start_signal")
           /\ SentCall("set_digital_out_mode")' => AckOf("set_display_device")
           /\ (active' /\ ~active) => AckOf("set_digital_out_mode")
           /\ active => active' ]_vars

C37_Witness ==
    /\ active /\ ~last.was_active
    /\ last.op = "recv" /\ IsAckOn(last.message, "ch_cmd")
    /\ \E i \in 1 .. Len(ran) : ran[i].name = "modeset_done"
    /\ pending["ch_cmd"] = <<>>

\* the dma_map_sgtable call of the step failed
PiodmaMapFailed ==
    \E i \in 1 .. Len(memops) :
        memops[i].api = "dma_map_sgtable" /\ ~memops[i].ok

\* C38: the status of a map_piodma reply is zero only when dma_map_sgtable
\* succeeded and the device-virtual address was stored in the reply; when
\* the mapping of an allocated buffer fails the status is not zero
CE_C38_PiodmaStatus ==
    LastIsMapPiodma =>
        \A i \in 1 .. Len(reply) :
            /\ reply[i].ret = 0 => (PiodmaMapped /\ ~PiodmaMapFailed /\ reply[i].dva)
            /\ PiodmaMapFailed => reply[i].ret # 0

\* holds when the mapping succeeds or the buffer is refused
C38_StatusWithoutMapFailure ==
    (LastIsMapPiodma /\ ~PiodmaMapFailed) =>
        \A i \in 1 .. Len(reply) :
            reply[i].ret = 0 => (PiodmaMapped /\ reply[i].dva)

\* the decimal digits in order of their value
DigitRow == <<"0", "1", "2", "3", "4", "5", "6", "7", "8", "9">>
IsDecimal(c) == \E i \in 1 .. 10 : DigitRow[i] = c
ValueOf(c) == (CHOOSE i \in 1 .. 10 : DigitRow[i] = c) - 1

\* C39: for the code "D" a b c with decimal digits a, b, c, stored as the
\* bytes c, b, a, 'D', dcp_parse_tag returns 100a + 10b + c, a value in
\* 0..999; for every tag whose last stored byte is not 'D' or whose first
\* three stored bytes hold a non-digit it returns -EINVAL
C39_ParseTag ==
    codec.pc = "parsed" =>
        IF /\ codec.tag[4] = "D"
           /\ \A i \in 1 .. 3 : IsDecimal(codec.tag[i])
        THEN /\ codec.id = 100 * ValueOf(codec.code[2]) + 10 * ValueOf(codec.code[3])
                           + ValueOf(codec.code[4])
             /\ codec.id \in 0 .. 999
        ELSE codec.id = EINVAL_NEG

C39_Witness ==
    /\ codec.pc = "parsed"
    /\ codec.code = <<"D", "1", "2", "3">>
    /\ codec.tag = <<"3", "2", "1", "D">>
    /\ codec.id = 123

\* the number of 4-byte words that fit in the blob
TagWordsIn(blob) == blob.len[1] \div 4 + blob.len[2] * (U16 \div 4)

\* C40: skip comes to an end on every blob (no call repeats a call that is
\* still active), the recursion depth of a call is never more than the
\* number of 4-byte words that fit in the blob, and once the cursor has had
\* no four bytes left for a tag no later call starts a loop of calls
CE_C40_SkipTerminates ==
    /\ parser.op # "diverged"
    /\ parser.depth <= TagWordsIn(parser.blob)
    /\ parser.was_dry => ~parser.pushed

\* holds on the blobs of a few words, where the cursor stays far from 2^32
C40_ShortBlobTerminates ==
    parser.blob.kind = "short" =>
        /\ parser.op # "diverged"
        /\ parser.depth <= TagWordsIn(parser.blob)
        /\ parser.was_dry => ~parser.pushed

\* three Arrays in one another take the third call to depth 2, and the
\* fourth call, at depth 3, finds the cursor dry
C40_NestedWitness ==
    /\ parser.blob.kind = "short"
    /\ Len(parser.blob.words) = 3
    /\ \A i \in 1 .. 3 : parser.blob.words[i] = OsTag(1, OS_OTYPE_ARRAY, 0)
    /\ parser.op = "returned" /\ parser.depth = 3 /\ parser.dry



====
